---- MODULE Spec2Model ----
(***************************************************************************)
(* Model of the NuGet version-resolution core of the extension:            *)
(*   src/src/extension/nugetApi.ts  (version comparator, version cache,    *)
(*                                   request coalescing, vulnerability     *)
(*                                   index, package metadata and search)   *)
(*   src/unnamed/part_006           (ExtensionManager.refreshPackageList)  *)
(*   src/src/extension/csprojDecorations.ts  (CodeLenses of a .csproj      *)
(*                                   document, inline update, upgrade all) *)
(*                                                                         *)
(* A version string is a sequence of one-character strings, so that        *)
(* parsing (split, parseInt) is computed and not assumed.                  *)
(***************************************************************************)
EXTENDS Integers, Sequences, FiniteSets, TLC

VARIABLES
  now,              \* Date.now(), in milliseconds
  versionCache,     \* Map<string, CacheEntry>
  pendingRequests,  \* Map<string, Promise<string[]>>
  promises,         \* the fetchPromise objects created so far (index = identity)
  calls,            \* the getPackageVersions invocations made so far
  batch,            \* the running refreshPackageList, its packages and position
  inp,              \* inputs of the pure functions
  out,              \* their outputs
  vulnerabilityCache,  \* VulnerabilityCache | null
  vulnCalls,        \* the getVulnerabilities invocations made so far
  metadataCache,    \* Map<string, MetadataCacheEntry>
  metaCalls,        \* the getPackageMetadata and searchPackages invocations
  lens,             \* the .csproj document, documentPackageCache and its packages
  quickPick         \* the quick pick of handleSearchAndAddPackage and its searches

vars == <<now, versionCache, pendingRequests, promises, calls, batch, inp, out,
          vulnerabilityCache, vulnCalls, metadataCache, metaCalls,
          lens, quickPick>>

\* the state of the vulnerability index
vulnVars == <<vulnerabilityCache, vulnCalls>>

\* the state of the metadata cache
metaVars == <<metadataCache, metaCalls>>

(***************************************************************************)
(* Bounds                                                                  *)
(***************************************************************************)
MaxCalls == 3
MaxTicks == 2
MaxVersions == 3

(***************************************************************************)
(* Strings                                                                 *)
(***************************************************************************)
Digits == {"0", "1", "2", "5", "9"}

DigitVal(ch) ==
  CASE ch = "0" -> 0
    [] ch = "1" -> 1
    [] ch = "2" -> 2
    [] ch = "5" -> 5
    [] ch = "9" -> 9

RECURSIVE IndexOf(_, _, _)
\* first position >= from at which ch occurs in s, 0 when there is none
IndexOf(s, ch, from) ==
  IF from > Len(s) THEN 0
  ELSE IF s[from] = ch THEN from
  ELSE IndexOf(s, ch, from + 1)

RECURSIVE Split(_, _)
\* String.prototype.split with a one-character separator
Split(s, sep) ==
  LET i == IndexOf(s, sep, 1) IN
    IF i = 0 THEN <<s>>
    ELSE <<SubSeq(s, 1, i - 1)>> \o Split(SubSeq(s, i + 1, Len(s)), sep)

RECURSIVE Join(_, _)
\* Array.prototype.join with a one-character separator
Join(segs, sep) ==
  IF Len(segs) = 0 THEN <<>>
  ELSE IF Len(segs) = 1 THEN segs[1]
  ELSE segs[1] \o <<sep>> \o Join(Tail(segs), sep)

NaN == -1

RECURSIVE DigitRun(_, _, _)
DigitRun(s, i, acc) ==
  IF i > Len(s) \/ s[i] \notin Digits THEN acc
  ELSE DigitRun(s, i + 1, acc * 10 + DigitVal(s[i]))

\* parseInt(p, 10): the value of the leading run of decimal digits, NaN when
\* the string does not start with a digit
parseInt(p) ==
  IF Len(p) = 0 \/ p[1] \notin Digits THEN NaN ELSE DigitRun(p, 1, 0)

\* collation weights of the root collation for the characters used:
\* punctuation before digits before letters
CollationWeight(ch) ==
  CASE ch = "-" -> 1
    [] ch = "." -> 2
    [] ch = "0" -> 3
    [] ch = "1" -> 4
    [] ch = "2" -> 5
    [] ch = "5" -> 6
    [] ch = "9" -> 7
    [] ch = "a" -> 8
    [] ch = "b" -> 9
    [] ch = "x" -> 10

RECURSIVE localeCompare(_, _)
\* String.prototype.localeCompare: -1, 0 or 1
localeCompare(s, t) ==
  IF Len(s) = 0 /\ Len(t) = 0 THEN 0
  ELSE IF Len(s) = 0 THEN -1
  ELSE IF Len(t) = 0 THEN 1
  ELSE IF CollationWeight(s[1]) < CollationWeight(t[1]) THEN -1
  ELSE IF CollationWeight(s[1]) > CollationWeight(t[1]) THEN 1
  ELSE localeCompare(Tail(s), Tail(t))

Sign(n) == IF n < 0 THEN -1 ELSE IF n > 0 THEN 1 ELSE 0

Max(x, y) == IF x >= y THEN x ELSE y

(***************************************************************************)
(* Version comparator                                                      *)
(***************************************************************************)
\* the null of `prerelease: string | null`
Null == <<"null">>

\* an optional value that is not set
Undefined == <<"undefined">>

isPrerelease(version) == IndexOf(version, "-", 1) # 0

parseVersion(version) ==
  LET pieces == Split(version, "-")
      versionPart == pieces[1]
      prereleaseParts == Tail(pieces)
      segs == Split(versionPart, ".")
  IN [ parts |-> [i \in 1..Len(segs) |->
                    IF parseInt(segs[i]) = NaN THEN 0 ELSE parseInt(segs[i])],
       prerelease |-> IF Len(prereleaseParts) > 0
                        THEN Join(prereleaseParts, "-") ELSE Null ]

\* parts[i] || 0, for the 0-based index i
PartOrZero(parts, i) == IF i + 1 <= Len(parts) THEN parts[i + 1] ELSE 0

RECURSIVE NumericDiff(_, _, _, _)
\* the loop over the numeric parts: the first non-zero partA - partB, else 0
NumericDiff(partsA, partsB, i, maxLength) ==
  IF i >= maxLength THEN 0
  ELSE IF PartOrZero(partsA, i) # PartOrZero(partsB, i)
    THEN PartOrZero(partsA, i) - PartOrZero(partsB, i)
  ELSE NumericDiff(partsA, partsB, i + 1, maxLength)

\* the truthiness of a `string | null`
Truthy(label) == label # Null /\ Len(label) > 0

\* the tail of compareVersions, reached when all numeric parts are equal
ComparePrerelease(preA, preB) ==
  IF preA = Null /\ preB # Null THEN 1
  ELSE IF preA # Null /\ preB = Null THEN -1
  ELSE IF Truthy(preA) /\ Truthy(preB) THEN localeCompare(preA, preB)
  ELSE 0

compareVersions(a, b) ==
  LET parsedA == parseVersion(a)
      parsedB == parseVersion(b)
      maxLength == Max(Len(parsedA.parts), Len(parsedB.parts))
      d == NumericDiff(parsedA.parts, parsedB.parts, 0, maxLength)
  IN IF d # 0 THEN d
     ELSE ComparePrerelease(parsedA.prerelease, parsedB.prerelease)

\* updated.prerelease && !current.prerelease etc. work on truthiness
getUpdateType(currentVersion, newVersion) ==
  IF Len(newVersion) = 0 \/ currentVersion = newVersion THEN "none"
  ELSE LET current == parseVersion(currentVersion)
           updated == parseVersion(newVersion)
       IN IF Truthy(updated.prerelease) /\ ~Truthy(current.prerelease)
            THEN "prerelease"
          ELSE IF PartOrZero(updated.parts, 0) > PartOrZero(current.parts, 0)
            THEN "major"
          ELSE IF PartOrZero(updated.parts, 1) > PartOrZero(current.parts, 1)
            THEN "minor"
          ELSE IF PartOrZero(updated.parts, 2) > PartOrZero(current.parts, 2)
            THEN "patch"
          ELSE IF Truthy(current.prerelease) /\ Truthy(updated.prerelease)
            THEN "prerelease"
          ELSE "patch"

(***************************************************************************)
(* versions.sort((a, b) => compareVersions(b, a))                          *)
(*                                                                         *)
(* Array.prototype.sort of the engine for arrays shorter than 64 elements: *)
(* the leading run is counted (and reversed when strictly descending),     *)
(* the remaining elements are placed by binary insertion.                  *)
(***************************************************************************)
\* the comparison function handed to sort, in ascending order
SortOrderAscending(x, y) == compareVersions(x, y)

\* the comparison function handed to sort
SortOrder(x, y) == compareVersions(y, x)

RECURSIVE Reverse(_)
Reverse(s) == IF Len(s) = 0 THEN <<>> ELSE Reverse(Tail(s)) \o <<s[1]>>

RECURSIVE RunLength(_, _, _)
\* idx: the (1-based) element examined next; the run ends before the first
\* element that breaks it
RunLength(arr, idx, isDescending) ==
  IF idx > Len(arr) THEN idx - 1
  ELSE LET order == SortOrder(arr[idx], arr[idx - 1]) IN
    IF isDescending /\ order >= 0 THEN idx - 1
    ELSE IF ~isDescending /\ order < 0 THEN idx - 1
    ELSE RunLength(arr, idx + 1, isDescending)

RECURSIVE BinarySearch(_, _, _, _)
\* left, right: 0-based bounds of the sorted prefix; the insertion point
BinarySearch(arr, pivot, left, right) ==
  IF left >= right THEN left
  ELSE LET mid == left + ((right - left) \div 2)
           order == SortOrder(pivot, arr[mid + 1])
       IN IF order < 0 THEN BinarySearch(arr, pivot, left, mid)
          ELSE BinarySearch(arr, pivot, mid + 1, right)

RECURSIVE BinaryInsertionSort(_, _)
\* start: the number of elements already in order
BinaryInsertionSort(arr, start) ==
  IF start >= Len(arr) THEN arr
  ELSE LET pivot == arr[start + 1]
           left == BinarySearch(arr, pivot, 0, start)
           placed == SubSeq(arr, 1, left) \o <<pivot>>
                       \o SubSeq(arr, left + 1, start)
                       \o SubSeq(arr, start + 2, Len(arr))
       IN BinaryInsertionSort(placed, start + 1)

SortVersions(versions) ==
  IF Len(versions) < 2 THEN versions
  ELSE LET isDescending == SortOrder(versions[2], versions[1]) < 0
           run == RunLength(versions, 3, isDescending)
           made == IF isDescending
                     THEN Reverse(SubSeq(versions, 1, run))
                            \o SubSeq(versions, run + 1, Len(versions))
                     ELSE versions
       IN BinaryInsertionSort(made, run)

(***************************************************************************)
(* Version strings used as inputs                                          *)
(***************************************************************************)
V1_2 == <<"1", ".", "2">>
V1_2_0 == <<"1", ".", "2", ".", "0">>
V1_10 == <<"1", ".", "1", "0">>
V1_9 == <<"1", ".", "9">>
V1_x == <<"1", ".", "x">>
V1_0_0 == <<"1", ".", "0", ".", "0">>
V1_0_0_a == <<"1", ".", "0", ".", "0", "-", "a">>
V1_0_0_b == <<"1", ".", "0", ".", "0", "-", "b">>
V1_0_0_a_b == <<"1", ".", "0", ".", "0", "-", "a", "-", "b">>
V1_0_0_ == <<"1", ".", "0", ".", "0", "-">>
V2_0_0 == <<"2", ".", "0", ".", "0">>
V2_0_0_a == <<"2", ".", "0", ".", "0", "-", "a">>
Empty == <<>>

Corpus ==
  { V1_2, V1_2_0, V1_10, V1_9, V1_x, V1_0_0, V1_0_0_a, V1_0_0_b, V1_0_0_a_b,
    V1_0_0_, V2_0_0, V2_0_0_a }

(***************************************************************************)
(* Version ranges of the vulnerability feed: isVersionInRange, and         *)
(* formatVulnerabilityRange of the webview and of the CodeLens tooltips    *)
(***************************************************************************)
V1_5_0 == <<"1", ".", "5", ".", "0">>
V1_9_0_b == <<"1", ".", "9", ".", "0", "-", "b">>
V2_1_0 == <<"2", ".", "1", ".", "0">>
V2_1_0_b == <<"2", ".", "1", ".", "0", "-", "b">>

Openers == {"[", "("}
Closers == {"]", ")"}

RECURSIVE TrimStart(_)
TrimStart(s) ==
  IF Len(s) > 0 /\ s[1] = " " THEN TrimStart(Tail(s)) ELSE s

RECURSIVE TrimEnd(_)
TrimEnd(s) ==
  IF Len(s) > 0 /\ s[Len(s)] = " " THEN TrimEnd(SubSeq(s, 1, Len(s) - 1)) ELSE s

\* String.prototype.trim
trim(s) == TrimEnd(TrimStart(s))

\* range.match(...) === null
NoMatch == [matched |-> FALSE, open |-> "", min |-> <<>>, max |-> <<>>, close |-> ""]

\* the end of both patterns, \s*([^\]\)]*)([\]\)])$ : after the white space
\* the rest is one closing bracket preceded by characters that are not
\* closing brackets
RestMatches(rest) ==
  LET r == TrimStart(rest)
  IN /\ Len(r) > 0
     /\ r[Len(r)] \in Closers
     /\ \A i \in 1..(Len(r) - 1) : r[i] \notin Closers

\* one way of matching ^([\[\(])([^,]*) and the comma: the second group takes
\* n characters and the comma is consumed or not
Attempt(s, n, withComma) ==
  /\ Len(s) >= 1 + n
  /\ s[1] \in Openers
  /\ \A i \in 2..(1 + n) : s[i] # ","
  /\ withComma => (Len(s) >= 2 + n /\ s[2 + n] = ",")
  /\ RestMatches(SubSeq(s, (IF withComma THEN 3 ELSE 2) + n, Len(s)))

\* the groups of the match a backtracking matcher finds first: the second
\* group as long as possible, then the comma consumed when there is one
Groups(s, commaRequired) ==
  LET ways == { w \in (0..Len(s)) \X BOOLEAN :
                  /\ commaRequired => w[2]
                  /\ Attempt(s, w[1], w[2]) }
  IN IF ways = {} THEN NoMatch
     ELSE LET first == CHOOSE w \in ways :
                \A v \in ways : \/ v[1] < w[1]
                                \/ (v[1] = w[1] /\ (w[2] \/ ~v[2]))
              r == TrimStart(SubSeq(s, (IF first[2] THEN 3 ELSE 2) + first[1], Len(s)))
          IN [ matched |-> TRUE,
               open |-> s[1],
               min |-> SubSeq(s, 2, 1 + first[1]),
               max |-> SubSeq(r, 1, Len(r) - 1),
               close |-> r[Len(r)] ]

\* the pattern of isVersionInRange with the comma made optional
RangeMatchCommaOptional(range) == Groups(range, FALSE)

\* range.match(/^([\[\(])([^,]*),\s*([^\]\)]*)([\]\)])$/)
RangeMatch(range) == Groups(range, TRUE)

\* trimmed.match(/^([\[\(])([^,]*),?\s*([^\]\)]*)([\]\)])$/)
IntervalMatch(trimmed) == Groups(trimmed, FALSE)

\* the lower bound that excludes an equal version whatever the bracket
BelowMinExclusive(cmp, minInclusive) == cmp <= 0

\* minInclusive ? cmp < 0 : cmp <= 0
BelowMin(cmp, minInclusive) == IF minInclusive THEN cmp < 0 ELSE cmp <= 0

\* maxInclusive ? cmp > 0 : cmp >= 0
AboveMax(cmp, maxInclusive) == IF maxInclusive THEN cmp > 0 ELSE cmp >= 0

isVersionInRange(version, range) ==
  LET rangeMatch == RangeMatch(range)
  IN IF ~rangeMatch.matched THEN FALSE
     ELSE LET minInclusive == rangeMatch.open = "["
              maxInclusive == rangeMatch.close = "]"
              minVersion == trim(rangeMatch.min)
              maxVersion == trim(rangeMatch.max)
          IN IF /\ Len(minVersion) > 0
                /\ BelowMin(compareVersions(version, minVersion), minInclusive)
               THEN FALSE
             ELSE IF /\ Len(maxVersion) > 0
                     /\ AboveMax(compareVersions(version, maxVersion), maxInclusive)
               THEN FALSE
             ELSE TRUE

\* the range string open min , max close
Interval(open, min, max, close) ==
  <<open>> \o min \o <<",">> \o max \o <<close>>

\* the fixed pieces of the rendered text
Exact == <<"E", "x", "a", "c", "t", " ">>
And == <<" ", "&", "&", " ">>
AtLeast == <<">", "=">>
Above == <<">">>
AtMost == <<"<", "=">>
Below == <<"<">>

formatVulnerabilityRange(range) ==
  IF Len(range) = 0 THEN <<>>
  ELSE LET trimmed == trim(range)
           intervalMatch == IntervalMatch(trimmed)
       IN IF ~intervalMatch.matched THEN trimmed
          ELSE LET min == trim(intervalMatch.min)
                   max == trim(intervalMatch.max)
                   minInclusive == intervalMatch.open = "["
                   maxInclusive == intervalMatch.close = "]"
                   hasMin == Len(min) > 0
                   hasMax == Len(max) > 0
               IN IF hasMin /\ hasMax /\ min = max /\ minInclusive /\ maxInclusive
                    THEN Exact \o min
                  ELSE IF hasMin /\ ~hasMax
                    THEN (IF minInclusive THEN AtLeast ELSE Above) \o <<" ">> \o min
                  ELSE IF ~hasMin /\ hasMax
                    THEN (IF maxInclusive THEN AtMost ELSE Below) \o <<" ">> \o max
                  ELSE IF hasMin /\ hasMax
                    THEN (IF minInclusive THEN AtLeast ELSE Above) \o <<" ">> \o min
                           \o And
                           \o (IF maxInclusive THEN AtMost ELSE Below) \o <<" ">> \o max
                  ELSE trimmed

(***************************************************************************)
(* Version cache and request coalescing                                    *)
(*                                                                         *)
(* promises[k] and calls[k] list the fetchPromise objects and the          *)
(* getPackageVersions invocations of the package with lower-cased name k,  *)
(* in the order they were made; a promise is named by its position.        *)
(***************************************************************************)
\* package ids as callers write them
Names == {"Foo", "foo", "bar"}

toLowerCase(id) == IF id = "Foo" THEN "foo" ELSE id

Keys == {toLowerCase(id) : id \in Names}

CACHE_TTL_MS == 60 * 60 * 1000

\* the clock advances in steps of half the TTL, so that an entry's age is
\* below, exactly at and above the TTL
TickMs == CACHE_TTL_MS \div 2

\* versionCache.get(key) === undefined
NoEntry == [versions |-> <<>>, timestamp |-> -1]

\* isCacheValid with `<=` in place of `<`
isCacheValidInclusive(entry, t) == t - entry.timestamp <= CACHE_TTL_MS

isCacheValid(entry, t) == t - entry.timestamp < CACHE_TTL_MS

\* the maps and lists getPackageVersions works on
State ==
  [ versionCache |-> versionCache, pendingRequests |-> pendingRequests,
    promises |-> promises, calls |-> calls ]

InFlight(p) == p.status \in {"fetch", "json"}
Settled(p) == p.status \in {"fulfilled", "rejected"}

\* the promises of a package that have not settled
InFlightFor(ps, key) == { i \in DOMAIN ps[key] : InFlight(ps[key][i]) }

\* pendingRequests.get(packageId), without the lower-casing
PendingLookupCaseSensitive(pending, packageId) == pending[packageId]

\* pendingRequests.get(packageId.toLowerCase()); 0 is undefined
PendingLookup(pending, packageId) == pending[toLowerCase(packageId)]

\* the lookup that never finds an in-flight fetch
PendingCheckSkipped(st, packageId) == 0

\* const pending = ...; if (pending) return pending;
PendingCheck(st, packageId) == PendingLookup(st.pendingRequests, packageId)

\* what is true of the package when a call is made, kept with the call
IssueFacts(st, packageId, t) ==
  LET key == toLowerCase(packageId)
      entry == st.versionCache[key]
      mine == st.promises[key]
  IN [ age |-> IF entry = NoEntry THEN -1 ELSE t - entry.timestamp,
       cached |-> entry.versions,
       inflight |-> InFlightFor(st.promises, key),
       lastFailed |-> Len(mine) > 0 /\ mine[Len(mine)].status = "rejected" ]

NewCall(packageId, promise, status, value, started, facts) ==
  [ packageId |-> packageId, promise |-> promise, status |-> status,
    value |-> value, started |-> started, age |-> facts.age,
    cached |-> facts.cached,
    inflight |-> facts.inflight, lastFailed |-> facts.lastFailed ]

\* the synchronous part of getPackageVersions(packageId) at time t
IssueCall(st, packageId, t) ==
  LET key == toLowerCase(packageId)
      cached == st.versionCache[key]
      pending == PendingCheck(st, packageId)
      facts == IssueFacts(st, packageId, t)
      fresh == Len(st.promises[key]) + 1
  IN IF cached # NoEntry /\ isCacheValid(cached, t)
       THEN [st EXCEPT !.calls[key] = Append(@,
              NewCall(packageId, 0, "fulfilled", cached.versions, FALSE, facts))]
     ELSE IF pending # 0
       THEN [st EXCEPT !.calls[key] = Append(@,
              NewCall(packageId, pending,
                      IF Settled(st.promises[key][pending])
                        THEN st.promises[key][pending].status ELSE "pending",
                      st.promises[key][pending].value, FALSE, facts))]
     ELSE [st EXCEPT
            !.promises[key] = Append(@, [packageId |-> packageId,
                                         status |-> "fetch",
                                         raw |-> <<>>, value |-> <<>>,
                                         cleared |-> FALSE,
                                         malformed |-> FALSE]),
            !.pendingRequests[key] = fresh,
            !.calls[key] = Append(@,
              NewCall(packageId, fresh, "pending", <<>>, TRUE, facts))]

\* the finally block that runs on success only
FinallyOnSuccessOnly(pending, packageId, failed) ==
  IF failed THEN pending
  ELSE [pending EXCEPT ![toLowerCase(packageId)] = 0]

\* finally { pendingRequests.delete(packageId.toLowerCase()) }
Finally(pending, packageId, failed) ==
  [pending EXCEPT ![toLowerCase(packageId)] = 0]

\* a failure that stores an empty list
CacheAfterThrowStoresEmpty(cache, packageId, t) ==
  [cache EXCEPT ![toLowerCase(packageId)] = [versions |-> <<>>, timestamp |-> t]]

\* a throw inside the fetch skips versionCache.set
CacheAfterThrow(cache, packageId, t) == cache

\* versionCache.set(packageId.toLowerCase(), { versions, timestamp })
CacheAfterSuccess(cache, packageId, versions, t) ==
  [cache EXCEPT ![toLowerCase(packageId)] =
     [versions |-> versions, timestamp |-> t]]

\* the promises returned to the callers of a fetch settle as the fetchPromise
\* did, in the microtasks that follow its settling
Deliver(cs, p, status, value) ==
  [c \in DOMAIN cs |->
     IF cs[c].promise = p /\ cs[c].status = "pending"
       THEN [cs[c] EXCEPT !.status = status, !.value = value]
       ELSE cs[c]]

SetState(st) ==
  /\ versionCache' = st.versionCache
  /\ pendingRequests' = st.pendingRequests
  /\ promises' = st.promises
  /\ calls' = st.calls

\* the number of getPackageVersions calls made so far
CallCount == Len(calls["foo"]) + Len(calls["bar"])

\* a caller invokes getPackageVersions(packageId)
GetPackageVersions(packageId) ==
  /\ CallCount < MaxCalls
  /\ SetState(IssueCall(State, packageId, now))
  /\ UNCHANGED <<now, batch, inp, out, vulnVars, metaVars, lens, quickPick>>

\* the fetch throws: the promise rejects after the finally block
Throw(k, p) ==
  /\ promises' = [promises EXCEPT ![k][p].status = "rejected"]
  /\ calls' = [calls EXCEPT ![k] = Deliver(@, p, "rejected", <<>>)]
  /\ versionCache' = CacheAfterThrow(versionCache, promises[k][p].packageId, now)
  /\ pendingRequests' = Finally(pendingRequests, promises[k][p].packageId, TRUE)

\* `await fetch(url)` settles: a network error, a response that is not ok,
\* or a response that is ok
FetchSettles(k, p, outcome) ==
  /\ p \in DOMAIN promises[k]
  /\ promises[k][p].status = "fetch"
  /\ \/ /\ outcome = "networkError"
        /\ Throw(k, p)
     \/ /\ outcome = "notOk"
        /\ Throw(k, p)
     \/ /\ outcome = "ok"
        /\ promises' = [promises EXCEPT ![k][p].status = "json"]
        /\ UNCHANGED <<versionCache, pendingRequests, calls, metaVars>>
  /\ UNCHANGED <<now, batch, inp, out, vulnVars, metaVars, lens, quickPick>>

\* `await response.json()` throws
JsonThrows(k, p) ==
  /\ p \in DOMAIN promises[k]
  /\ promises[k][p].status = "json"
  /\ Throw(k, p)
  /\ UNCHANGED <<now, batch, inp, out, vulnVars, metaVars, lens, quickPick>>

\* `await response.json()` delivers a body; body.versions is the array of
\* the provider, body.hasVersions is false when the field is missing
JsonSettles(k, p, body) ==
  /\ p \in DOMAIN promises[k]
  /\ promises[k][p].status = "json"
  /\ LET versions == SortVersions(IF body.hasVersions THEN body.versions ELSE <<>>)
         packageId == promises[k][p].packageId
     IN /\ promises' = [promises EXCEPT ![k][p].status = "fulfilled",
                                        ![k][p].raw = body.versions,
                                        ![k][p].malformed = ~body.hasVersions,
                                        ![k][p].value = versions]
        /\ versionCache' = CacheAfterSuccess(versionCache, packageId, versions, now)
        /\ pendingRequests' = Finally(pendingRequests, packageId, FALSE)
        /\ calls' = [calls EXCEPT ![k] = Deliver(@, p, "fulfilled", versions)]
  /\ UNCHANGED <<now, batch, inp, out, vulnVars, metaVars, lens, quickPick>>

Tick ==
  /\ now < MaxTicks * TickMs
  /\ now' = now + TickMs
  /\ UNCHANGED <<versionCache, pendingRequests, promises, calls, batch, inp, out, vulnVars, metaVars, lens,
                 quickPick>>

(***************************************************************************)
(* Vulnerability index                                                     *)
(***************************************************************************)
\* a Map<string, VulnerabilityInfo[]> without entries; its keys are the
\* package ids as the feed writes them
EmptyMap == [k \in Names |-> <<>>]

\* vulnerabilityCache === null
NoSnapshot == [data |-> EmptyMap, timestamp |-> -1]

VULNERABILITY_CACHE_TTL_MS == 6 * 60 * 60 * 1000

\* the clock of the vulnerability index advances in steps of half its TTL
VulnTickMs == VULNERABILITY_CACHE_TTL_MS \div 2

MaxVulnCalls == 2

\* the calls made so far at the functions that go to a provider other than
\* the version provider
ApiCalls == Len(vulnCalls) + Len(metaCalls)

MaxPages == 2

\* the getVulnerabilities(packageId, version) calls that are made
VulnQueries ==
  { [packageId |-> "Foo", version |-> V1_0_0],
    [packageId |-> "bar", version |-> V2_0_0] }

\* a VulnerabilityInfo, of which the range is kept
Advisory(range) == [versions |-> range]

\* the page with the given position in the index of the feed: a record of
\* package id -> VulnerabilityInfo[]; the second page writes the id of foo
\* as its author does
PageContent(j) ==
  IF j % 2 = 1
    THEN [k \in Names |->
            IF k = "foo" THEN <<Advisory(Interval("[", V1_0_0, V2_0_0, ")"))>>
            ELSE <<>>]
    ELSE [k \in Names |->
            IF k = "Foo" THEN <<Advisory(Interval("(", Empty, V1_5_0, "]"))>>
            ELSE IF k = "bar" THEN <<Advisory(Interval("[", V2_0_0, Empty, ")"))>>
            ELSE <<>>]

\* vulns.filter((v) => isVersionInRange(version, v.versions))
RECURSIVE Filter(_, _)
Filter(vulns, version) ==
  IF Len(vulns) = 0 THEN <<>>
  ELSE (IF isVersionInRange(version, Head(vulns).versions) THEN <<Head(vulns)>> ELSE <<>>)
         \o Filter(Tail(vulns), version)

\* data.get(packageId.toLowerCase()) || [], filtered
Affecting(data, packageId, version) ==
  Filter(data[toLowerCase(packageId)], version)

RECURSIVE Merge(_, _, _)
\* the loop over the pages: the lists of a page are appended to the lists
\* collected so far; a page that is null is skipped
Merge(vulnerabilities, pages, j) ==
  IF j > Len(pages) THEN vulnerabilities
  ELSE Merge(IF pages[j] = "loaded"
               THEN [k \in Names |-> vulnerabilities[k] \o PageContent(j)[k]]
               ELSE vulnerabilities,
             pages, j + 1)

\* the refreshes that have written vulnerabilityCache, and the last of them
Finished(cs) == {c \in DOMAIN cs : cs[c].finished > 0}
LastFinished(cs) ==
  CHOOSE c \in Finished(cs) : \A d \in Finished(cs) : cs[d].finished <= cs[c].finished

\* a cache check that still accepts a snapshot whose age is the TTL
SnapshotValidInclusive(cache, t) ==
  cache # NoSnapshot /\ t - cache.timestamp <= VULNERABILITY_CACHE_TTL_MS

\* the cache check of getVulnerabilities
SnapshotValid(cache, t) ==
  cache # NoSnapshot /\ t - cache.timestamp < VULNERABILITY_CACHE_TTL_MS

\* a caller invokes getVulnerabilities(packageId, version): it is answered
\* from the snapshot, or fetchVulnerabilityData is called and awaits the
\* service index
GetVulnerabilities(q) ==
  /\ ApiCalls < MaxVulnCalls
  /\ LET valid == SnapshotValid(vulnerabilityCache, now)
     IN vulnCalls' = Append(vulnCalls,
          [ packageId |-> q.packageId, version |-> q.version,
            stage |-> IF valid THEN "done" ELSE "serviceIndex",
            fromCache |-> valid,
            at |-> now,
            snapshotAt |-> vulnerabilityCache.timestamp,
            pages |-> <<>>,
            data |-> IF valid THEN vulnerabilityCache.data ELSE EmptyMap,
            failed |-> FALSE,
            finished |-> 0,
            result |-> IF valid
              THEN Affecting(vulnerabilityCache.data, q.packageId, q.version)
              ELSE <<>>,
            afterFailed |-> /\ Finished(vulnCalls) # {}
                            /\ vulnCalls[LastFinished(vulnCalls)].failed ])
  /\ UNCHANGED <<now, versionCache, pendingRequests, promises, calls, batch, inp,
                 out, vulnerabilityCache, metaVars, lens, quickPick>>

\* fetchVulnerabilityData returns `data` to call c, which installs it as the
\* snapshot and answers its caller
Complete(c, pages, data, failed) ==
  /\ vulnCalls' = [vulnCalls EXCEPT
       ![c].stage = "done",
       ![c].pages = pages,
       ![c].data = data,
       ![c].failed = failed,
       ![c].finished = Cardinality(Finished(vulnCalls)) + 1,
       ![c].result = Affecting(data, vulnCalls[c].packageId, vulnCalls[c].version)]
  /\ vulnerabilityCache' = [data |-> data, timestamp |-> now]

\* the catch block of fetchVulnerabilityData: nothing was merged yet
Caught(c) == Complete(c, vulnCalls[c].pages, EmptyMap, TRUE)

\* `await fetch(NUGET_SERVICE_INDEX)` settles
ServiceIndexFetchSettles(c, outcome) ==
  /\ c \in DOMAIN vulnCalls
  /\ vulnCalls[c].stage = "serviceIndex"
  /\ \/ /\ outcome \in {"networkError", "notOk"}
        /\ Caught(c)
     \/ /\ outcome = "ok"
        /\ vulnCalls' = [vulnCalls EXCEPT ![c].stage = "serviceIndexJson"]
        /\ UNCHANGED vulnerabilityCache
  /\ UNCHANGED <<now, versionCache, pendingRequests, promises, calls, batch, inp, out, metaVars, lens,
                 quickPick>>

\* `await serviceIndexResponse.json()` settles: it throws, or the index
\* lacks or has the VulnerabilityInfo resource
ServiceIndexJsonSettles(c, body) ==
  /\ c \in DOMAIN vulnCalls
  /\ vulnCalls[c].stage = "serviceIndexJson"
  /\ \/ /\ body = "throws"
        /\ Caught(c)
     \/ /\ body = "noResource"
        /\ Complete(c, <<>>, EmptyMap, FALSE)
     \/ /\ body = "resource"
        /\ vulnCalls' = [vulnCalls EXCEPT ![c].stage = "index"]
        /\ UNCHANGED vulnerabilityCache
  /\ UNCHANGED <<now, versionCache, pendingRequests, promises, calls, batch, inp, out, metaVars, lens,
                 quickPick>>

\* `await fetch(vulnResource["@id"])` settles
IndexFetchSettles(c, outcome) ==
  /\ c \in DOMAIN vulnCalls
  /\ vulnCalls[c].stage = "index"
  /\ \/ /\ outcome \in {"networkError", "notOk"}
        /\ Caught(c)
     \/ /\ outcome = "ok"
        /\ vulnCalls' = [vulnCalls EXCEPT ![c].stage = "indexJson"]
        /\ UNCHANGED vulnerabilityCache
  /\ UNCHANGED <<now, versionCache, pendingRequests, promises, calls, batch, inp, out, metaVars, lens,
                 quickPick>>

\* `await indexResponse.json()` throws
IndexJsonThrows(c) ==
  /\ c \in DOMAIN vulnCalls
  /\ vulnCalls[c].stage = "indexJson"
  /\ Caught(c)
  /\ UNCHANGED <<now, versionCache, pendingRequests, promises, calls, batch, inp, out, metaVars, lens,
                 quickPick>>

\* `await indexResponse.json()` delivers an index of n pages: a fetch is
\* started for each; with no page Promise.all resolves at once
IndexJsonSettles(c, n) ==
  /\ c \in DOMAIN vulnCalls
  /\ vulnCalls[c].stage = "indexJson"
  /\ IF n = 0
       THEN Complete(c, <<>>, EmptyMap, FALSE)
       ELSE /\ vulnCalls' = [vulnCalls EXCEPT
                 ![c].stage = "pages",
                 ![c].pages = [j \in 1..n |-> "fetch"]]
            /\ UNCHANGED vulnerabilityCache
  /\ UNCHANGED <<now, versionCache, pendingRequests, promises, calls, batch, inp, out, metaVars, lens,
                 quickPick>>

\* a merge that installs the map after every page that arrives
PageBecomesIncremental(c, j, status) ==
  LET pages == [vulnCalls[c].pages EXCEPT ![j] = status]
  IN IF \A i \in DOMAIN pages : pages[i] \in {"loaded", "null"}
       THEN Complete(c, pages, Merge(EmptyMap, pages, 1), FALSE)
       ELSE /\ vulnCalls' = [vulnCalls EXCEPT ![c].pages = pages]
            /\ vulnerabilityCache' =
                 [data |-> Merge(EmptyMap, pages, 1), timestamp |-> now]

\* page j of call c becomes `status`; when it was the last page to settle,
\* Promise.all resolves and the pages are merged
PageBecomes(c, j, status) ==
  LET pages == [vulnCalls[c].pages EXCEPT ![j] = status]
  IN IF \A i \in DOMAIN pages : pages[i] \in {"loaded", "null"}
       THEN Complete(c, pages, Merge(EmptyMap, pages, 1), FALSE)
       ELSE /\ vulnCalls' = [vulnCalls EXCEPT ![c].pages = pages]
            /\ UNCHANGED vulnerabilityCache

\* `await fetch(page["@id"])` settles: a network error and a response that is
\* not ok make the page null
PageFetchSettles(c, j, outcome) ==
  /\ c \in DOMAIN vulnCalls
  /\ vulnCalls[c].stage = "pages"
  /\ j \in DOMAIN vulnCalls[c].pages
  /\ vulnCalls[c].pages[j] = "fetch"
  /\ PageBecomes(c, j, IF outcome = "ok" THEN "json" ELSE "null")
  /\ UNCHANGED <<now, versionCache, pendingRequests, promises, calls, batch, inp, out, metaVars, lens,
                 quickPick>>

\* `await pageResponse.json()` settles: it throws, which makes the page
\* null, or it delivers the page
PageJsonSettles(c, j, outcome) ==
  /\ c \in DOMAIN vulnCalls
  /\ vulnCalls[c].stage = "pages"
  /\ j \in DOMAIN vulnCalls[c].pages
  /\ vulnCalls[c].pages[j] = "json"
  /\ PageBecomes(c, j, IF outcome = "ok" THEN "loaded" ELSE "null")
  /\ UNCHANGED <<now, versionCache, pendingRequests, promises, calls, batch, inp, out, metaVars, lens,
                 quickPick>>

VulnTick ==
  /\ now < MaxTicks * VulnTickMs
  /\ now' = now + VulnTickMs
  /\ UNCHANGED <<versionCache, pendingRequests, promises, calls, batch, inp, out,
                 vulnVars, metaVars, lens, quickPick>>

(***************************************************************************)
(* Package metadata and package search                                     *)
(***************************************************************************)
MaxMetaCalls == 2

\* the getPackageMetadata(packageId, version?) calls that are made
MetaQueries ==
  { [packageId |-> "Foo", version |-> Undefined],
    [packageId |-> "foo", version |-> Undefined],
    [packageId |-> "foo", version |-> V1_0_0] }

\* the searchPackages(query) calls that are made
SearchQueries == {"", "Foo"}

\* `${packageId.toLowerCase()}:${version || "latest"}`
cacheKey(packageId, version) ==
  <<toLowerCase(packageId),
    IF version = Undefined \/ version = Empty THEN <<"latest">> ELSE version>>

MetaKeys == {cacheKey(q.packageId, q.version) : q \in MetaQueries}

\* !value of an optional string or array: absent or empty
Falsy(value) == value = Undefined \/ Len(value) = 0

\* no PackageMetadata (null)
NoMetadata ==
  [ id |-> "", version |-> Empty, iconUrl |-> Undefined, projectUrl |-> Undefined,
    licenseUrl |-> Undefined, tags |-> Undefined, totalDownloads |-> 0,
    verified |-> FALSE ]

\* metadataCache.get(cacheKey) === undefined
NoMetaEntry == [metadata |-> NoMetadata, timestamp |-> -1]

\* the catalogEntry objects the registration provider answers with: every
\* field set, the fields absent or empty, and a mixture
CatalogEntries ==
  { [ id |-> "Foo", version |-> V1_0_0, iconUrl |-> <<"p">>, projectUrl |-> <<"p">>,
      licenseUrl |-> <<"p">>, tags |-> <<"p">> ],
    [ id |-> "Foo", version |-> Empty, iconUrl |-> Empty, projectUrl |-> Undefined,
      licenseUrl |-> Undefined, tags |-> <<>> ],
    [ id |-> "", version |-> V1_0_0, iconUrl |-> Undefined, projectUrl |-> <<"p">>,
      licenseUrl |-> Empty, tags |-> Undefined ] }

\* an item of the search provider's answer
SearchItem(id, value, totalDownloads, verified) ==
  [ id |-> id, version |-> V2_0_0, iconUrl |-> value, projectUrl |-> value,
    licenseUrl |-> value, tags |-> value, totalDownloads |-> totalDownloads,
    verified |-> verified ]

\* the data arrays the search provider answers with
SearchBodies ==
  { <<>>,
    <<SearchItem("Foo", <<"s">>, 5, TRUE)>>,
    <<SearchItem("bar", <<"s">>, 9, TRUE), SearchItem("foo", Undefined, 1, FALSE)>> }

RECURSIVE FindMatch(_, _, _)
\* results.find((r) => r.id.toLowerCase() === packageId.toLowerCase()), as
\* the position of the match, 0 without one
FindMatch(results, i, packageId) ==
  IF i > Len(results) THEN 0
  ELSE IF toLowerCase(results[i].id) = toLowerCase(packageId) THEN i
  ELSE FindMatch(results, i + 1, packageId)

\* the metadata object built from the catalog entry
FromEntry(entry, packageId, targetVersion) ==
  [ id |-> IF entry.id # "" THEN entry.id ELSE packageId,
    version |-> IF Len(entry.version) > 0 THEN entry.version ELSE targetVersion,
    iconUrl |-> entry.iconUrl, projectUrl |-> entry.projectUrl,
    licenseUrl |-> entry.licenseUrl, tags |-> entry.tags,
    totalDownloads |-> 0, verified |-> FALSE ]

\* an enrichment that takes every field of the search match
EnrichOverwrites(metadata, searchMatch) ==
  [ metadata EXCEPT
      !.totalDownloads = searchMatch.totalDownloads,
      !.verified = searchMatch.verified,
      !.iconUrl = searchMatch.iconUrl,
      !.projectUrl = searchMatch.projectUrl,
      !.licenseUrl = searchMatch.licenseUrl,
      !.tags = searchMatch.tags ]

\* the enrichment of the metadata with the search match
Enrich(metadata, searchMatch) ==
  [ metadata EXCEPT
      !.totalDownloads = searchMatch.totalDownloads,
      !.verified = searchMatch.verified,
      !.iconUrl = IF Falsy(@) THEN searchMatch.iconUrl ELSE @,
      !.projectUrl = IF Falsy(@) THEN searchMatch.projectUrl ELSE @,
      !.licenseUrl = IF Falsy(@) THEN searchMatch.licenseUrl ELSE @,
      !.tags = IF Falsy(@) THEN searchMatch.tags ELSE @ ]

\* the object getPackageMetadataFromSearch builds from the match
FromSearch(match, version) ==
  [ id |-> match.id,
    version |-> IF version = Undefined \/ version = Empty THEN match.version ELSE version,
    iconUrl |-> match.iconUrl, projectUrl |-> match.projectUrl,
    licenseUrl |-> match.licenseUrl, tags |-> match.tags,
    totalDownloads |-> match.totalDownloads, verified |-> match.verified ]

\* the cache check of getPackageMetadata
MetadataCached(cache, key, t) ==
  cache[key] # NoMetaEntry /\ t - cache[key].timestamp < CACHE_TTL_MS

\* a call of getPackageMetadata or searchPackages that has just been made
NewMetaCall(kind, packageId, version) ==
  [ kind |-> kind, packageId |-> packageId, version |-> version,
    stage |-> "done", by |-> "caller", targetVersion |-> Undefined,
    fallbackVersion |-> Undefined, metadata |-> NoMetadata,
    returned |-> "pending", value |-> NoMetadata,
    results |-> <<>>, fromCache |-> FALSE, at |-> now, accesses |-> 0,
    stored |-> FALSE, returnedAt |-> -1,
    repeated |-> /\ kind = "metadata"
                 /\ \E c \in DOMAIN metaCalls :
                      /\ metaCalls[c].kind = "metadata"
                      /\ cacheKey(metaCalls[c].packageId, metaCalls[c].version)
                           = cacheKey(packageId, version)
                      /\ metaCalls[c].returned = "record"
                      /\ ~metaCalls[c].fromCache
                      /\ now - metaCalls[c].returnedAt < CACHE_TTL_MS ]

\* searchPackages is entered by call c on behalf of `by`: its fetch is made
EnterSearch(call, by) ==
  [call EXCEPT !.stage = "search", !.by = by, !.accesses = @ + 1]

\* getPackageMetadataFromSearch(packageId, version) is entered
Fallback(call, version) ==
  [EnterSearch(call, "fallback") EXCEPT !.fallbackVersion = version]

\* the registration document of targetVersion is requested
Registration(call, targetVersion) ==
  [call EXCEPT !.stage = "registration", !.targetVersion = targetVersion,
               !.accesses = @ + 1]

\* call c returns
Return(call, returned, value) ==
  [call EXCEPT !.stage = "done", !.returned = returned, !.value = value,
               !.returnedAt = now]

\* a caller invokes getPackageMetadata(packageId, version)
GetPackageMetadata(q) ==
  /\ ApiCalls < MaxMetaCalls
  /\ LET call == NewMetaCall("metadata", q.packageId, q.version)
         key == cacheKey(q.packageId, q.version)
     IN metaCalls' = Append(metaCalls,
          IF MetadataCached(metadataCache, key, now)
            THEN [Return(call, "record", metadataCache[key].metadata)
                    EXCEPT !.fromCache = TRUE]
          ELSE IF ~Falsy(q.version)
            THEN Registration(call, q.version)
          ELSE [call EXCEPT !.stage = "latest", !.accesses = @ + 1])
  /\ UNCHANGED <<now, versionCache, pendingRequests, promises, calls, batch, inp, out,
                 vulnVars, metadataCache, lens, quickPick>>

\* `await getLatestVersion(packageId)` rejects: the catch block answers with
\* the search fallback
LatestVersionRejects(c) ==
  /\ c \in DOMAIN metaCalls
  /\ metaCalls[c].stage = "latest"
  /\ metaCalls' = [metaCalls EXCEPT ![c] = Fallback(@, @.version)]
  /\ UNCHANGED <<now, versionCache, pendingRequests, promises, calls, batch, inp, out,
                 vulnVars, metadataCache, lens, quickPick>>

\* `await getLatestVersion(packageId)` delivers "" or a version
LatestVersionSettles(c, latest) ==
  /\ c \in DOMAIN metaCalls
  /\ metaCalls[c].stage = "latest"
  /\ metaCalls' = [metaCalls EXCEPT ![c] =
       IF Falsy(latest) THEN Return(@, "null", NoMetadata)
       ELSE Registration(@, latest)]
  /\ UNCHANGED <<now, versionCache, pendingRequests, promises, calls, batch, inp, out,
                 vulnVars, metadataCache, lens, quickPick>>

\* `await fetch(registrationUrl)` settles
RegistrationFetchSettles(c, outcome) ==
  /\ c \in DOMAIN metaCalls
  /\ metaCalls[c].stage = "registration"
  /\ metaCalls' = [metaCalls EXCEPT ![c] =
       IF outcome = "networkError" THEN Fallback(@, @.version)
       ELSE IF outcome = "notOk" THEN Fallback(@, @.targetVersion)
       ELSE [@ EXCEPT !.stage = "registrationJson"]]
  /\ UNCHANGED <<now, versionCache, pendingRequests, promises, calls, batch, inp, out,
                 vulnVars, metadataCache, lens, quickPick>>

\* `await response.json()` throws
RegistrationJsonThrows(c) ==
  /\ c \in DOMAIN metaCalls
  /\ metaCalls[c].stage = "registrationJson"
  /\ metaCalls' = [metaCalls EXCEPT ![c] = Fallback(@, @.version)]
  /\ UNCHANGED <<now, versionCache, pendingRequests, promises, calls, batch, inp, out,
                 vulnVars, metadataCache, lens, quickPick>>

\* `await response.json()` delivers a document without catalogEntry
RegistrationJsonLacksEntry(c) ==
  /\ c \in DOMAIN metaCalls
  /\ metaCalls[c].stage = "registrationJson"
  /\ metaCalls' = [metaCalls EXCEPT ![c] = Fallback(@, @.targetVersion)]
  /\ UNCHANGED <<now, versionCache, pendingRequests, promises, calls, batch, inp, out,
                 vulnVars, metadataCache, lens, quickPick>>

\* `await response.json()` delivers the catalog entry: the metadata object is
\* built and searchPackages is called to enrich it
RegistrationJsonSettles(c, entry) ==
  /\ c \in DOMAIN metaCalls
  /\ metaCalls[c].stage = "registrationJson"
  /\ LET call == metaCalls[c]
     IN metaCalls' = [metaCalls EXCEPT ![c] =
          [EnterSearch(call, "enrich") EXCEPT
             !.metadata = FromEntry(entry, call.packageId, call.targetVersion)]]
  /\ UNCHANGED <<now, versionCache, pendingRequests, promises, calls, batch, inp, out,
                 vulnVars, metadataCache, lens, quickPick>>

\* a caller invokes searchPackages(query): an empty query is answered at once
SearchPackages(query) ==
  /\ ApiCalls < MaxMetaCalls
  /\ LET call == NewMetaCall("search", query, Undefined)
     IN metaCalls' = Append(metaCalls,
          IF query = "" THEN Return(call, "list", NoMetadata)
          ELSE EnterSearch(call, "caller"))
  /\ UNCHANGED <<now, versionCache, pendingRequests, promises, calls, batch, inp, out,
                 vulnVars, metadataCache, lens, quickPick>>

\* the error of searchPackages escapes to the caller of call c
SearchRethrows(c) ==
  /\ metaCalls' = [metaCalls EXCEPT ![c] = Return(@, "rejected", NoMetadata)]
  /\ UNCHANGED metadataCache

\* searchPackages returns `results` to the code that called it in call c:
\* to the caller, to the enrichment, which stores the metadata and returns
\* it, or to getPackageMetadataFromSearch, which returns the match or null
SearchReturns(c, results) ==
  LET call == metaCalls[c]
      i == FindMatch(results, 1, call.packageId)
      metadata == IF i = 0 THEN call.metadata ELSE Enrich(call.metadata, results[i])
  IN IF call.by = "caller"
       THEN /\ metaCalls' = [metaCalls EXCEPT ![c] =
                 [Return(@, "list", NoMetadata) EXCEPT !.results = results]]
            /\ UNCHANGED metadataCache
     ELSE IF call.by = "enrich"
       THEN /\ metaCalls' = [metaCalls EXCEPT ![c] =
                 [Return(@, "record", metadata) EXCEPT !.stored = TRUE]]
            /\ metadataCache' =
                 [metadataCache EXCEPT ![cacheKey(call.packageId, call.version)] =
                    [metadata |-> metadata, timestamp |-> now]]
     ELSE /\ metaCalls' = [metaCalls EXCEPT ![c] =
               IF i = 0 THEN Return(@, "null", NoMetadata)
               ELSE Return(@, "record", FromSearch(results[i], call.fallbackVersion))]
          /\ UNCHANGED metadataCache

\* the catch block of searchPackages
SearchCaught(c) == SearchReturns(c, <<>>)

\* `await fetch(searchUrl)` settles
SearchFetchSettles(c, outcome) ==
  /\ c \in DOMAIN metaCalls
  /\ metaCalls[c].stage = "search"
  /\ IF outcome = "ok"
       THEN /\ metaCalls' = [metaCalls EXCEPT ![c].stage = "searchJson"]
            /\ UNCHANGED metadataCache
       ELSE SearchCaught(c)
  /\ UNCHANGED <<now, versionCache, pendingRequests, promises, calls, batch, inp, out,
                 vulnVars, lens, quickPick>>

\* `await response.json()` throws
SearchJsonThrows(c) ==
  /\ c \in DOMAIN metaCalls
  /\ metaCalls[c].stage = "searchJson"
  /\ SearchCaught(c)
  /\ UNCHANGED <<now, versionCache, pendingRequests, promises, calls, batch, inp, out,
                 vulnVars, lens, quickPick>>

\* `await response.json()` delivers the data array
SearchJsonSettles(c, body) ==
  /\ c \in DOMAIN metaCalls
  /\ metaCalls[c].stage = "searchJson"
  /\ SearchReturns(c, body)
  /\ UNCHANGED <<now, versionCache, pendingRequests, promises, calls, batch, inp, out,
                 vulnVars, lens, quickPick>>

(***************************************************************************)
(* Manual clearing of the version cache                                    *)
(***************************************************************************)
\* a clear that empties every cache of the module
clearEverything ==
  /\ versionCache' = [k \in Names |-> NoEntry]
  /\ pendingRequests' = [k \in Names |-> 0]
  /\ vulnerabilityCache' = NoSnapshot
  /\ metadataCache' = [k \in MetaKeys |-> NoMetaEntry]
  /\ UNCHANGED <<now, promises, calls, batch, inp, out, vulnCalls, metaCalls, lens,
                 quickPick>>

\* versionCache.clear(); in the behaviours that keep a record of the clears
\* (out.recordClears), the fetches in flight at the clear are marked
clearCache ==
  /\ versionCache' = [k \in Names |-> NoEntry]
  /\ promises' = [k \in Keys |-> [p \in DOMAIN promises[k] |->
       IF out.recordClears /\ InFlight(promises[k][p])
         THEN [promises[k][p] EXCEPT !.cleared = TRUE] ELSE promises[k][p]]]
  /\ UNCHANGED <<now, pendingRequests, calls, batch, inp, out, vulnVars, metaVars, lens,
                 quickPick>>

clearExpiredCache ==
  /\ versionCache' = [k \in Names |->
       IF versionCache[k] # NoEntry /\ ~isCacheValid(versionCache[k], now)
         THEN NoEntry ELSE versionCache[k]]
  /\ UNCHANGED <<now, pendingRequests, promises, calls, batch, inp, out, vulnVars, metaVars, lens,
                 quickPick>>

(***************************************************************************)
(* Specification of the version cache                                      *)
(***************************************************************************)
\* a range string in its pieces
NoRange ==
  [ form |-> "none", open |-> "", min |-> Empty, gap |-> Empty, max |-> Empty,
    close |-> "" ]

NoInput ==
  [ a |-> Empty, b |-> Empty, c |-> Empty, range |-> NoRange,
    entry |-> [ id |-> "", version |-> Empty, iconUrl |-> Undefined,
                projectUrl |-> Undefined, licenseUrl |-> Undefined,
                tags |-> Undefined ],
    results |-> <<>> ]

NoOutput ==
  [ done |-> FALSE, ab |-> 0, ba |-> 0, bc |-> 0, ac |-> 0, aa |-> 0,
    classified |-> FALSE, type |-> "",
    resolved |-> FALSE, versions |-> <<>>, latest |-> Empty, prerelease |-> Empty,
    checked |-> FALSE, inRange |-> FALSE,
    rendered |-> FALSE, formatted |-> <<>>,
    enriched |-> FALSE, metadata |-> NoMetadata,
    parsed |-> FALSE, parts |-> <<>>, label |-> Null,
    recordClears |-> FALSE,
    decided |-> FALSE, upToDate |-> FALSE ]
\* the refreshPackageList invocations that overlap
Refreshes == {1, 2}

\* a refreshPackageList that has not started
NoRun ==
  [ phase |-> "idle", names |-> <<>>, latestCalls |-> <<>>, over |-> 0,
    closures |-> <<>>, sent |-> <<>>, path |-> "", sentPath |-> "" ]

\* the quick pick as handleSearchAndAddPackage creates it: an empty input,
\* no items, searchTimeout undefined, currentSearch = ""
NoQuickPick ==
  [ value |-> <<>>, items |-> <<>>, busy |-> FALSE, currentSearch |-> <<>>,
    searchTimeout |-> <<"undefined">>, searches |-> <<>>, changes |-> 0 ]

\* an unopened document: documentPackageCache has no entry for it
NoLens ==
  [ document |-> 1, cached |-> 0, generations |-> <<>>, parsedFrom |-> <<>>,
    fired |-> {}, updating |-> <<>>, upgrading |-> "no",
    packagesToUpdate |-> <<>>, open |-> TRUE ]

\* currentPackages = [], a project selected, no refresh running
NoBatch ==
  [ currentPackages |-> 0,
    currentProjectPath |-> "a.csproj",
    objects |-> [r \in Refreshes |-> <<>>],
    runs |-> [r \in Refreshes |-> NoRun] ]

Init ==
  /\ now = 0
  /\ versionCache = [k \in Names |-> NoEntry]
  /\ pendingRequests = [k \in Names |-> 0]
  /\ promises = [k \in Keys |-> <<>>]
  /\ calls = [k \in Keys |-> <<>>]
  /\ batch = NoBatch
  /\ inp = NoInput
  /\ out = NoOutput
  /\ vulnerabilityCache = NoSnapshot
  /\ vulnCalls = <<>>
  /\ metadataCache = [k \in MetaKeys |-> NoMetaEntry]
  /\ metaCalls = <<>>
  /\ lens = NoLens
  /\ quickPick = NoQuickPick

\* the bodies the provider answers with
CacheFeeds ==
  { [hasVersions |-> FALSE, versions |-> <<>>],
    [hasVersions |-> TRUE, versions |-> <<V1_0_0, V2_0_0>>] }

Next ==
  \/ \E id \in Names : GetPackageVersions(id)
  \/ \E k \in Keys, p \in 1..MaxCalls, outcome \in {"networkError", "notOk", "ok"} :
       FetchSettles(k, p, outcome)
  \/ \E k \in Keys, p \in 1..MaxCalls : JsonThrows(k, p)
  \/ \E k \in Keys, p \in 1..MaxCalls, body \in CacheFeeds : JsonSettles(k, p, body)
  \/ Tick
  \/ clearCache
  \/ clearExpiredCache

Spec == Init /\ [][Next]_vars

(***************************************************************************)
(* Properties of the version cache                                         *)
(***************************************************************************)
\* a call made while the package had no valid cache entry
MadeWithoutValidEntry(call) == call.age = -1 \/ call.age >= CACHE_TTL_MS

\* C1: a call for a package made while no valid cache entry exists and while
\* a fetch for that package (any letter case) is in flight starts no fetch of
\* its own, and it receives the same result as the caller that started the
\* fetch: the provider is invoked once for all of them.
C1_Coalescing ==
  \A k \in Keys : \A c \in DOMAIN calls[k] :
    (MadeWithoutValidEntry(calls[k][c]) /\ calls[k][c].inflight # {}) =>
      /\ ~calls[k][c].started
      /\ \A d \in DOMAIN calls[k] :
           (calls[k][d].started /\ calls[k][d].promise \in calls[k][c].inflight) =>
             /\ calls[k][d].status = calls[k][c].status
             /\ calls[k][d].value = calls[k][c].value

\* two callers that wrote the name in different case shared one fetch and
\* both hold its non-empty list
C1_Witness ==
  \E k \in Keys : \E c, d \in DOMAIN calls[k] :
    /\ calls[k][d].started
    /\ calls[k][c].inflight = {calls[k][d].promise}
    /\ calls[k][c].packageId # calls[k][d].packageId
    /\ calls[k][c].status = "fulfilled" /\ calls[k][d].status = "fulfilled"
    /\ Len(calls[k][c].value) > 0

\* C2: in every reachable state there is at most one provider fetch in
\* flight per lower-cased package name.
C2_AtMostOneFetch ==
  \A k \in Keys : Cardinality(InFlightFor(promises, k)) <= 1

\* fetches of two packages are in flight at once, one of them the second
\* fetch of its package, whose callers used both spellings of the name
C2_Witness ==
  \E k, other \in Keys : \E p, q \in DOMAIN promises[k] :
    /\ k # other
    /\ InFlightFor(promises, other) # {}
    /\ p < q
    /\ Settled(promises[k][p]) /\ InFlight(promises[k][q])
    /\ \E c, d \in DOMAIN calls[k] :
         /\ calls[k][c].packageId = "Foo" /\ calls[k][d].packageId = "foo"
         /\ calls[k][d].promise = q

\* C3: getPackageVersions never rejects: every caller of a failed fetch
\* gets an empty list.
C3_NeverRejects ==
  \A k \in Keys : \A c \in DOMAIN calls[k] : calls[k][c].status # "rejected"

\* C5: neither the step that starts a fetch nor the step in which it fails
\* changes versionCache, and a call made when the latest fetch of its
\* package had failed starts a new provider fetch.
C5_FailureNotCached ==
  [][ \A k \in Keys :
        /\ Len(promises'[k]) > Len(promises[k]) => versionCache' = versionCache
        /\ \A p \in DOMAIN promises[k] :
             (InFlight(promises[k][p]) /\ promises'[k][p].status = "rejected")
               => versionCache' = versionCache
        /\ \A c \in DOMAIN calls'[k] :
             calls'[k][c].lastFailed => calls'[k][c].started
    ]_vars

\* a fetch failed while a stale entry was in the cache, the entry is still
\* there, and the next call has started a new fetch
C5_Witness ==
  \E k \in Keys : \E c \in DOMAIN calls[k] :
    /\ calls[k][c].lastFailed /\ calls[k][c].started
    /\ calls[k][c].age >= CACHE_TTL_MS
    /\ Len(calls[k][c].cached) > 0

\* C6: a call that finds an entry younger than the TTL is answered with the
\* cached list and starts no fetch; a call that finds an entry whose age has
\* reached the TTL starts a fetch when none is in flight for the package and
\* joins the one in flight otherwise.
C6_CacheTtl ==
  \A k \in Keys : \A c \in DOMAIN calls[k] :
    LET call == calls[k][c] IN
      /\ (call.age >= 0 /\ call.age < CACHE_TTL_MS) =>
           /\ ~call.started
           /\ call.promise = 0
           /\ call.status = "fulfilled"
           /\ call.value = call.cached
      /\ call.age >= CACHE_TTL_MS =>
           /\ call.started <=> call.inflight = {}
           /\ ~call.started => call.promise \in call.inflight

\* one call was served from an entry half a TTL old, a later one found the
\* entry exactly one TTL old and started the refetch
C6_Witness ==
  \E k \in Keys : \E b, c \in DOMAIN calls[k] :
    /\ calls[k][b].age = TickMs /\ calls[k][b].promise = 0
    /\ Len(calls[k][b].value) > 0
    /\ calls[k][c].age = CACHE_TTL_MS /\ calls[k][c].started

\* C7: pendingRequests holds an entry for a package only while its fetch is
\* in flight, and no call is handed a promise that had already settled.
C7_PendingRemoved ==
  /\ \A id \in Names :
       pendingRequests[id] # 0 =>
         InFlight(promises[toLowerCase(id)][pendingRequests[id]])
  /\ \A k \in Keys : \A c \in DOMAIN calls[k] :
       (calls[k][c].promise # 0 /\ ~calls[k][c].started) =>
          calls[k][c].promise \in calls[k][c].inflight

\* a package has a failed fetch and a successful one behind it and no entry
\* in pendingRequests
C7_Witness ==
  \E k \in Keys : \E p, q \in DOMAIN promises[k] :
    /\ promises[k][p].status = "rejected" /\ promises[k][q].status = "fulfilled"
    /\ pendingRequests[k] = 0

\* C31: the step in which a fetch receives a successful response without a
\* versions array does what the step of a response that is not ok does: the
\* promise of the fetch rejects, its callers are settled in the same way,
\* and versionCache is left as it was.
C31_MalformedAsNotFound ==
  [][ \A k \in Keys : \A p \in DOMAIN promises[k] :
        (InFlight(promises[k][p]) /\ promises'[k][p].malformed) =>
           /\ promises'[k][p].status = "rejected"
           /\ calls'[k] = Deliver(calls[k], p, "rejected", <<>>)
           /\ versionCache' = versionCache
    ]_vars

(***************************************************************************)
(* Specification of the manual clear: the version cache with a record of   *)
(* the fetches that were in flight at a clearCache()                       *)
(***************************************************************************)
InitClear ==
  /\ now = 0
  /\ versionCache = [k \in Names |-> NoEntry]
  /\ pendingRequests = [k \in Names |-> 0]
  /\ promises = [k \in Keys |-> <<>>]
  /\ calls = [k \in Keys |-> <<>>]
  /\ batch = NoBatch
  /\ inp = NoInput
  /\ out = [NoOutput EXCEPT !.recordClears = TRUE]
  /\ vulnerabilityCache = NoSnapshot
  /\ vulnCalls = <<>>
  /\ metadataCache = [k \in MetaKeys |-> NoMetaEntry]
  /\ metaCalls = <<>>
  /\ lens = NoLens
  /\ quickPick = NoQuickPick

SpecClear == InitClear /\ [][Next]_vars

\* the fetch whose list is in the cache entry of a package: the latest one
\* that was fulfilled, 0 when there is none
Writer(ps) ==
  LET fulfilled == { p \in DOMAIN ps : ps[p].status = "fulfilled" } IN
    IF fulfilled = {} THEN 0
    ELSE CHOOSE p \in fulfilled : \A q \in fulfilled : q <= p

\* C29: a getPackageVersions call made after clearCache() is not answered
\* by a fetch that was in flight at the clear: it neither joins such a fetch
\* nor is served the cache entry that such a fetch wrote.
C29_ClearForcesRefresh ==
  [][ \A k \in Keys : \A c \in DOMAIN calls'[k] \ DOMAIN calls[k] :
        LET call == calls'[k][c] IN
          /\ (call.promise # 0 /\ ~call.started) =>
               ~promises[k][call.promise].cleared
          /\ (call.promise = 0 /\ Writer(promises[k]) # 0) =>
               ~promises[k][Writer(promises[k])].cleared
    ]_vars

(***************************************************************************)
(* Specification of the frame of the manual clear: the version cache, with *)
(* a metadata entry and a vulnerability snapshot in place from the start   *)
(***************************************************************************)
\* metadataCache after getPackageMetadata("Foo") has stored its record
StoredMetadata ==
  [k \in MetaKeys |->
     IF k = cacheKey("Foo", Undefined)
       THEN [ metadata |->
                FromEntry(CHOOSE e \in CatalogEntries : e.id = "Foo" /\ e.version = V1_0_0,
                          "Foo", V1_0_0),
              timestamp |-> 0 ]
       ELSE NoMetaEntry]

\* vulnerabilityCache after a refresh has loaded both pages of the feed
StoredSnapshot ==
  [ data |-> Merge(EmptyMap, [j \in 1..MaxPages |-> "loaded"], 1), timestamp |-> 0 ]

InitFrame ==
  /\ now = 0
  /\ versionCache = [k \in Names |-> NoEntry]
  /\ pendingRequests = [k \in Names |-> 0]
  /\ promises = [k \in Keys |-> <<>>]
  /\ calls = [k \in Keys |-> <<>>]
  /\ batch = NoBatch
  /\ inp = NoInput
  /\ out = NoOutput
  /\ vulnerabilityCache = StoredSnapshot
  /\ vulnCalls = <<>>
  /\ metadataCache = StoredMetadata
  /\ metaCalls = <<>>
  /\ lens = NoLens
  /\ quickPick = NoQuickPick

NextFrame ==
  \/ \E id \in Keys : GetPackageVersions(id)
  \/ \E k \in Keys, p \in 1..MaxCalls, outcome \in {"networkError", "notOk", "ok"} :
       FetchSettles(k, p, outcome)
  \/ \E k \in Keys, p \in 1..MaxCalls, body \in CacheFeeds : JsonSettles(k, p, body)
  \/ clearCache
  \/ GetPackageMetadata([packageId |-> "foo", version |-> Undefined])
  \/ GetVulnerabilities([packageId |-> "Foo", version |-> V1_0_0])

SpecFrame == InitFrame /\ [][NextFrame]_vars

\* a step that removes an entry of versionCache that has not expired
RemovesValidEntry ==
  \E k \in Names :
    /\ versionCache[k] # NoEntry
    /\ isCacheValid(versionCache[k], now)
    /\ versionCache'[k] = NoEntry

\* C40: a step that removes an unexpired entry from versionCache, as
\* clearCache() does, removes every entry of versionCache and leaves
\* metadataCache, vulnerabilityCache and pendingRequests as they were.
C40_ClearCacheFrame ==
  [][ RemovesValidEntry =>
        /\ versionCache' = [k \in Names |-> NoEntry]
        /\ UNCHANGED <<metadataCache, vulnerabilityCache, pendingRequests>>
    ]_vars

\* the list of a fulfilled fetch is no longer in versionCache although it
\* cannot have expired, a fetch of the other package is still registered in
\* pendingRequests, and a metadata call and a vulnerability call have been
\* answered from their caches
C40_Witness ==
  /\ \E k \in Keys :
       /\ \E p \in DOMAIN promises[k] : promises[k][p].status = "fulfilled"
       /\ versionCache[k] = NoEntry
  /\ \E id \in Names :
       pendingRequests[id] # 0 /\ InFlight(promises[toLowerCase(id)][pendingRequests[id]])
  /\ \E c \in DOMAIN metaCalls :
       metaCalls[c].fromCache /\ metaCalls[c].value = StoredMetadata[cacheKey("Foo", Undefined)].metadata
  /\ \E c \in DOMAIN vulnCalls :
       vulnCalls[c].fromCache /\ Len(vulnCalls[c].result) > 0

(***************************************************************************)
(* Specification of the comparator: compareVersions applied to the pairs   *)
(* of three version strings                                                *)
(***************************************************************************)
InitCompare ==
  /\ now = 0
  /\ versionCache = [k \in Names |-> NoEntry]
  /\ pendingRequests = [k \in Names |-> 0]
  /\ promises = [k \in Keys |-> <<>>]
  /\ calls = [k \in Keys |-> <<>>]
  /\ batch = NoBatch
  /\ inp \in {[NoInput EXCEPT !.a = x, !.b = y, !.c = z] : x, y, z \in Corpus}
  /\ out = NoOutput
  /\ vulnerabilityCache = NoSnapshot
  /\ vulnCalls = <<>>
  /\ metadataCache = [k \in MetaKeys |-> NoMetaEntry]
  /\ metaCalls = <<>>
  /\ lens = NoLens
  /\ quickPick = NoQuickPick

Compare ==
  /\ ~out.done
  /\ out' = [out EXCEPT !.done = TRUE,
                         !.ab = compareVersions(inp.a, inp.b),
                         !.ba = compareVersions(inp.b, inp.a),
                         !.bc = compareVersions(inp.b, inp.c),
                         !.ac = compareVersions(inp.a, inp.c),
                         !.aa = compareVersions(inp.a, inp.a)]
  /\ UNCHANGED <<now, versionCache, pendingRequests, promises, calls, batch, inp, vulnVars, metaVars, lens,
                 quickPick>>

NextCompare == Compare

SpecCompare == InitCompare /\ [][NextCompare]_vars

\* C8: compareVersions is a total order: compare(a,a) = 0, the sign of
\* compare(a,b) is the opposite of the sign of compare(b,a), and it is
\* transitive, also through results of 0.
C8_TotalOrder ==
  out.done =>
    /\ out.aa = 0
    /\ Sign(out.ab) = -Sign(out.ba)
    /\ (out.ab <= 0 /\ out.bc <= 0) => out.ac <= 0
    /\ (out.ab = 0 /\ out.bc = 0) => out.ac = 0

\* C9: compareVersions decides on the numeric components, padded with 0;
\* when they are all equal a version without a label is above one with a
\* label, and two labels are compared as strings.
C9_ComparatorRule ==
  out.done =>
    LET pa == parseVersion(inp.a)
        pb == parseVersion(inp.b)
        n == NumericDiff(pa.parts, pb.parts, 0, Max(Len(pa.parts), Len(pb.parts)))
    IN IF n # 0 THEN Sign(out.ab) = Sign(n)
       ELSE IF pa.prerelease = Null /\ pb.prerelease # Null THEN out.ab > 0
       ELSE IF pa.prerelease # Null /\ pb.prerelease = Null THEN out.ab < 0
       ELSE IF pa.prerelease # Null /\ pb.prerelease # Null
         THEN Sign(out.ab) = localeCompare(pa.prerelease, pb.prerelease)
       ELSE out.ab = 0

(***************************************************************************)
(* getLatestVersion, getLatestPrereleaseVersion                            *)
(***************************************************************************)
RECURSIVE FirstWhere(_, _, _)
\* versions.find(...): the first element that is (is not) a pre-release
FirstWhere(versions, i, wantPrerelease) ==
  IF i > Len(versions) THEN Undefined
  ELSE IF isPrerelease(versions[i]) = wantPrerelease THEN versions[i]
  ELSE FirstWhere(versions, i + 1, wantPrerelease)

\* getLatestVersion without the search for a stable version
getLatestVersionFirstEntry(versions) ==
  IF Len(versions) = 0 THEN Empty ELSE versions[1]

\* the part of getLatestVersion after the await
getLatestVersion(versions) ==
  IF Len(versions) = 0 THEN Empty
  ELSE LET stableVersion == FirstWhere(versions, 1, FALSE)
       IN IF stableVersion # Undefined /\ Len(stableVersion) > 0
            THEN stableVersion ELSE versions[1]

\* the part of getLatestPrereleaseVersion after the await
getLatestPrereleaseVersion(versions) ==
  IF Len(versions) = 0 THEN Empty
  ELSE LET prereleaseVersion == FirstWhere(versions, 1, TRUE)
       IN IF prereleaseVersion # Undefined THEN prereleaseVersion ELSE Empty

(***************************************************************************)
(* Steps of getPackageMetadata and searchPackages                          *)
(***************************************************************************)
NextMeta ==
  \/ \E q \in MetaQueries : GetPackageMetadata(q)
  \/ \E c \in 1..MaxMetaCalls : LatestVersionRejects(c)
  \/ \E c \in 1..MaxMetaCalls, latest \in {Empty, V2_0_0} : LatestVersionSettles(c, latest)
  \/ \E c \in 1..MaxMetaCalls, outcome \in {"networkError", "notOk", "ok"} :
       RegistrationFetchSettles(c, outcome)
  \/ \E c \in 1..MaxMetaCalls : RegistrationJsonThrows(c)
  \/ \E c \in 1..MaxMetaCalls : RegistrationJsonLacksEntry(c)
  \/ \E c \in 1..MaxMetaCalls, entry \in CatalogEntries : RegistrationJsonSettles(c, entry)
  \/ \E query \in SearchQueries : SearchPackages(query)
  \/ \E c \in 1..MaxMetaCalls, outcome \in {"networkError", "notOk", "ok"} :
       SearchFetchSettles(c, outcome)
  \/ \E c \in 1..MaxMetaCalls : SearchJsonThrows(c)
  \/ \E c \in 1..MaxMetaCalls, body \in SearchBodies : SearchJsonSettles(c, body)
  \/ Tick

(***************************************************************************)
(* Specification of the enrichment of the metadata                         *)
(***************************************************************************)
\* the values of an optional field of the catalog entry
PrimaryValues == {Undefined, Empty, <<"p">>}

InitEnrich ==
  /\ now = 0
  /\ versionCache = [k \in Names |-> NoEntry]
  /\ pendingRequests = [k \in Names |-> 0]
  /\ promises = [k \in Keys |-> <<>>]
  /\ calls = [k \in Keys |-> <<>>]
  /\ batch = NoBatch
  /\ inp \in {[NoInput EXCEPT
                 !.entry = [ id |-> "Foo", version |-> V1_0_0, iconUrl |-> i,
                             projectUrl |-> p, licenseUrl |-> l, tags |-> t ],
                 !.results = body] :
               i \in PrimaryValues, p \in PrimaryValues, l \in PrimaryValues,
               t \in PrimaryValues, body \in SearchBodies}
  /\ out = NoOutput
  /\ vulnerabilityCache = NoSnapshot
  /\ vulnCalls = <<>>
  /\ metadataCache = [k \in MetaKeys |-> NoMetaEntry]
  /\ metaCalls = <<>>
  /\ lens = NoLens
  /\ quickPick = NoQuickPick

\* the metadata getPackageMetadata("foo", "1.0.0") builds from the catalog
\* entry inp.entry and enriches with the search results inp.results
Enrichment ==
  /\ ~out.enriched
  /\ LET metadata == FromEntry(inp.entry, "foo", V1_0_0)
         i == FindMatch(inp.results, 1, "foo")
     IN out' = [out EXCEPT
          !.enriched = TRUE,
          !.metadata = IF i = 0 THEN metadata ELSE Enrich(metadata, inp.results[i])]
  /\ UNCHANGED <<now, versionCache, pendingRequests, promises, calls, batch, inp,
                 vulnVars, metaVars, lens, quickPick>>

NextEnrich == Enrichment

SpecEnrich == InitEnrich /\ [][NextEnrich]_vars

\* the value of a field that the primary provider supplied stays; a field it
\* left absent or empty holds that value or the value of the search match
Kept(primary, returned, matched, fromSearch) ==
  IF primary # Undefined /\ Len(primary) > 0
    THEN returned = primary
    ELSE returned = IF matched THEN fromSearch ELSE primary

\* C26: in the record built from the registration entry and enriched from
\* the search result, each of iconUrl, projectUrl, licenseUrl and tags keeps
\* a non-empty value of the registration entry; the value of the search match
\* is taken only for a field the entry leaves absent or empty.
C26_PrimaryKept ==
  out.enriched =>
    LET matches == {i \in DOMAIN inp.results : inp.results[i].id \in {"Foo", "foo"}}
        matched == matches # {}
        match == IF matched THEN inp.results[CHOOSE i \in matches : TRUE]
                 ELSE NoMetadata
    IN /\ Kept(inp.entry.iconUrl, out.metadata.iconUrl, matched, match.iconUrl)
       /\ Kept(inp.entry.projectUrl, out.metadata.projectUrl, matched, match.projectUrl)
       /\ Kept(inp.entry.licenseUrl, out.metadata.licenseUrl, matched, match.licenseUrl)
       /\ Kept(inp.entry.tags, out.metadata.tags, matched, match.tags)

\* an entry with an icon and without a project URL was enriched from a match
\* that has both: the icon is the entry's, the project URL the match's
C26_Witness ==
  /\ out.enriched
  /\ inp.entry.iconUrl = <<"p">>
  /\ inp.entry.projectUrl = Undefined
  /\ out.metadata.iconUrl = <<"p">>
  /\ out.metadata.projectUrl = <<"s">>

(***************************************************************************)
(* Specification of the vulnerability index                                *)
(***************************************************************************)
NextVuln ==
  \/ \E q \in VulnQueries : GetVulnerabilities(q)
  \/ \E c \in 1..MaxVulnCalls, outcome \in {"networkError", "notOk", "ok"} :
       ServiceIndexFetchSettles(c, outcome)
  \/ \E c \in 1..MaxVulnCalls, body \in {"throws", "noResource", "resource"} :
       ServiceIndexJsonSettles(c, body)
  \/ \E c \in 1..MaxVulnCalls, outcome \in {"networkError", "notOk", "ok"} :
       IndexFetchSettles(c, outcome)
  \/ \E c \in 1..MaxVulnCalls : IndexJsonThrows(c)
  \/ \E c \in 1..MaxVulnCalls, n \in 0..MaxPages : IndexJsonSettles(c, n)
  \/ \E c \in 1..MaxVulnCalls, j \in 1..MaxPages,
        outcome \in {"networkError", "notOk", "ok"} : PageFetchSettles(c, j, outcome)
  \/ \E c \in 1..MaxVulnCalls, j \in 1..MaxPages, outcome \in {"throws", "ok"} :
       PageJsonSettles(c, j, outcome)
  \/ VulnTick

SpecVuln == Init /\ [][NextVuln]_vars

(***************************************************************************)
(* Specification of the functions that call providers and degrade on       *)
(* failure: getPackageMetadata, searchPackages and getVulnerabilities      *)
(***************************************************************************)
NextApi ==
  \/ NextMeta
  \/ \E q \in VulnQueries : GetVulnerabilities(q)
  \/ \E c \in 1..MaxVulnCalls, outcome \in {"networkError", "notOk", "ok"} :
       ServiceIndexFetchSettles(c, outcome)
  \/ \E c \in 1..MaxVulnCalls, body \in {"throws", "noResource", "resource"} :
       ServiceIndexJsonSettles(c, body)
  \/ \E c \in 1..MaxVulnCalls, outcome \in {"networkError", "notOk", "ok"} :
       IndexFetchSettles(c, outcome)
  \/ \E c \in 1..MaxVulnCalls : IndexJsonThrows(c)
  \/ \E c \in 1..MaxVulnCalls, n \in 0..MaxPages : IndexJsonSettles(c, n)
  \/ \E c \in 1..MaxVulnCalls, j \in 1..MaxPages,
        outcome \in {"networkError", "notOk", "ok"} : PageFetchSettles(c, j, outcome)
  \/ \E c \in 1..MaxVulnCalls, j \in 1..MaxPages, outcome \in {"throws", "ok"} :
       PageJsonSettles(c, j, outcome)

SpecApi == Init /\ [][NextApi]_vars

\* C24: no getPackageMetadata, searchPackages or getVulnerabilities call
\* rejects, whatever fetch or body fails: a finished getPackageMetadata has
\* returned a record or null, a finished searchPackages and a finished
\* getVulnerabilities a list.
C24_NeverRejects ==
  /\ \A c \in DOMAIN metaCalls :
       /\ metaCalls[c].returned # "rejected"
       /\ metaCalls[c].stage = "done" =>
            metaCalls[c].returned =
              IF metaCalls[c].kind = "search" THEN "list"
              ELSE IF metaCalls[c].value = NoMetadata THEN "null" ELSE "record"
  /\ \A c \in DOMAIN vulnCalls :
       /\ vulnCalls[c].stage \in
            {"serviceIndex", "serviceIndexJson", "index", "indexJson", "pages", "done"}
       /\ vulnCalls[c].failed => vulnCalls[c].stage = "done" /\ vulnCalls[c].result = <<>>

\* a getPackageMetadata whose version lookup rejected and whose fallback
\* search failed has returned null, beside a getVulnerabilities whose
\* refresh failed and that returned the empty list
C24_Witness ==
  /\ \E c \in DOMAIN metaCalls :
       /\ metaCalls[c].kind = "metadata"
       /\ metaCalls[c].by = "fallback"
       /\ metaCalls[c].accesses = 2
       /\ metaCalls[c].returned = "null"
  /\ \E c \in DOMAIN vulnCalls : vulnCalls[c].failed /\ vulnCalls[c].stage = "done"

\* C25: a getPackageMetadata call that obtained a record, from the
\* registration provider or from the search fallback, has stored it under
\* lower(package):version (or :latest), and a call for a key for which a record
\* was obtained less than an hour before is answered from the cache with no
\* provider access; null is never stored.
C25_MetadataCached ==
  /\ \A c \in DOMAIN metaCalls :
       LET call == metaCalls[c] IN
         call.kind = "metadata" =>
           /\ (call.returned = "record" /\ ~call.fromCache) =>
                metadataCache[<<toLowerCase(call.packageId),
                                IF call.version = Undefined THEN <<"latest">>
                                ELSE call.version>>] # NoMetaEntry
           /\ call.repeated => call.fromCache /\ call.accesses = 0
  /\ \A key \in MetaKeys :
       metadataCache[key] # NoMetaEntry => metadataCache[key].metadata # NoMetadata

\* the refresh of call c fails in this step
RefreshFailsNow(c) ==
  /\ vulnCalls[c].stage # "done"
  /\ vulnCalls'[c].stage = "done"
  /\ vulnCalls'[c].failed

\* C18: a refresh of the vulnerability index that fails leaves the data of
\* the snapshot installed before it in place; the empty map is installed
\* only when there was no snapshot.
C18_SnapshotKept ==
  [][ \A c \in DOMAIN vulnCalls :
        RefreshFailsNow(c) =>
          vulnerabilityCache'.data =
            IF vulnerabilityCache = NoSnapshot THEN EmptyMap
            ELSE vulnerabilityCache.data
    ]_vars

\* C37: a snapshot that holds advisories and whose age is below the TTL is
\* not replaced: no step changes vulnerabilityCache while it is valid and
\* not empty.
C37_SnapshotStays ==
  [][ ( /\ SnapshotValid(vulnerabilityCache, now)
        /\ vulnerabilityCache.data # EmptyMap )
        => vulnerabilityCache' = vulnerabilityCache
    ]_vars

\* C19: a getVulnerabilities call made when the refresh that ended last had
\* failed is not answered from the snapshot: it fetches.
C19_VulnFailureNotCached ==
  \A c \in DOMAIN vulnCalls : vulnCalls[c].afterFailed => ~vulnCalls[c].fromCache

\* the map that fetchVulnerabilityData of the finished refresh d returned:
\* every page has settled and every page that loaded is merged
CompleteMap(d) ==
  /\ vulnCalls[d].stage = "done"
  /\ ~vulnCalls[d].fromCache
  /\ \A j \in DOMAIN vulnCalls[d].pages : vulnCalls[d].pages[j] \in {"loaded", "null"}
  /\ vulnCalls[d].data =
       IF vulnCalls[d].failed THEN EmptyMap
       ELSE Merge(EmptyMap, vulnCalls[d].pages, 1)

\* C21: at every point the snapshot a lookup reads is the complete map of one
\* finished refresh (or there is none), and every lookup answered from the
\* snapshot has read such a map; a map with only some pages merged is never
\* visible.
C21_AtomicSnapshot ==
  /\ vulnerabilityCache # NoSnapshot =>
       \E d \in DOMAIN vulnCalls :
         CompleteMap(d) /\ vulnerabilityCache.data = vulnCalls[d].data
  /\ \A c \in DOMAIN vulnCalls :
       vulnCalls[c].fromCache =>
         \E d \in 1..(c - 1) :
           CompleteMap(d) /\ vulnCalls[c].data = vulnCalls[d].data

\* a refresh has merged nothing yet although one of its pages has arrived,
\* while the snapshot holds the two pages of the refresh that finished
C21_Witness ==
  \E c, d \in DOMAIN vulnCalls :
    /\ vulnCalls[c].stage = "pages"
    /\ \E j \in DOMAIN vulnCalls[c].pages : vulnCalls[c].pages[j] = "loaded"
    /\ CompleteMap(d)
    /\ vulnCalls[d].pages = <<"loaded", "loaded">>
    /\ vulnerabilityCache.data = vulnCalls[d].data

\* C22: a getVulnerabilities call made when a snapshot younger than six hours
\* exists fetches nothing and returns the advisories of that snapshot that
\* affect the version; a call made when there is no snapshot, or when the
\* age of the snapshot has reached six hours, starts a refresh and installs
\* its map.
C22_SnapshotTtl ==
  \A c \in DOMAIN vulnCalls :
    LET call == vulnCalls[c]
        young == /\ call.snapshotAt >= 0
                 /\ call.at - call.snapshotAt < 6 * 60 * 60 * 1000
    IN IF young
         THEN /\ call.fromCache
              /\ call.stage = "done"
              /\ call.pages = <<>>
              /\ call.finished = 0
              /\ call.result = Filter(call.data[toLowerCase(call.packageId)], call.version)
         ELSE /\ ~call.fromCache
              /\ call.stage = "done" => call.finished > 0

\* a call is answered with an advisory from a snapshot three hours old, with
\* no fetch
C22_Witness ==
  \E c \in DOMAIN vulnCalls :
    /\ vulnCalls[c].fromCache
    /\ vulnCalls[c].at - vulnCalls[c].snapshotAt = 3 * 60 * 60 * 1000
    /\ vulnCalls[c].result # <<>>

RECURSIVE StoredFor(_, _, _)
\* the records the pages that loaded hold for the package, whatever the case
\* its id is written in, from page j on
StoredFor(pages, j, packageId) ==
  IF j > Len(pages) THEN <<>>
  ELSE (IF pages[j] = "loaded"
          THEN LET K == {k \in Names : /\ toLowerCase(k) = toLowerCase(packageId)
                                       /\ PageContent(j)[k] # <<>>}
               IN IF K = {} THEN <<>> ELSE PageContent(j)[CHOOSE k \in K : TRUE]
          ELSE <<>>)
       \o StoredFor(pages, j + 1, packageId)

\* C23: getVulnerabilities returns the records that the feed holds for the
\* package under any spelling of its id that differs by case only, merged
\* over the pages, and of these the ones whose range contains the version.
C23_CaseInsensitiveLookup ==
  \A c \in DOMAIN vulnCalls :
    (vulnCalls[c].stage = "done" /\ ~vulnCalls[c].fromCache /\ ~vulnCalls[c].failed)
    => vulnCalls[c].result =
         Filter(StoredFor(vulnCalls[c].pages, 1, vulnCalls[c].packageId),
                vulnCalls[c].version)

\* C20: a refresh in which the service index, the feed index or a page
\* failed to load yields the empty map.
C20_AbortOnFailure ==
  \A c \in DOMAIN vulnCalls :
    ( /\ vulnCalls[c].stage = "done"
      /\ ~vulnCalls[c].fromCache
      /\ \/ vulnCalls[c].failed
         \/ \E j \in DOMAIN vulnCalls[c].pages : vulnCalls[c].pages[j] = "null" )
    => vulnCalls[c].data = EmptyMap

(***************************************************************************)
(* Specification of the classifier: getUpdateType applied to a current     *)
(* and a candidate version                                                 *)
(***************************************************************************)
V1_0_1 == <<"1", ".", "0", ".", "1">>
V1_0_0_1 == <<"1", ".", "0", ".", "0", ".", "1">>

ClassifyCorpus == Corpus \cup {V1_0_1, V1_0_0_1, Empty}

InitClassify ==
  /\ now = 0
  /\ versionCache = [k \in Names |-> NoEntry]
  /\ pendingRequests = [k \in Names |-> 0]
  /\ promises = [k \in Keys |-> <<>>]
  /\ calls = [k \in Keys |-> <<>>]
  /\ batch = NoBatch
  /\ inp \in {[NoInput EXCEPT !.a = x, !.b = y] : x, y \in ClassifyCorpus}
  /\ out = NoOutput
  /\ vulnerabilityCache = NoSnapshot
  /\ vulnCalls = <<>>
  /\ metadataCache = [k \in MetaKeys |-> NoMetaEntry]
  /\ metaCalls = <<>>
  /\ lens = NoLens
  /\ quickPick = NoQuickPick

\* getUpdateType(currentVersion = inp.a, newVersion = inp.b)
Classify ==
  /\ ~out.classified
  /\ out' = [out EXCEPT !.classified = TRUE,
                         !.type = getUpdateType(inp.a, inp.b)]
  /\ UNCHANGED <<now, versionCache, pendingRequests, promises, calls, batch, inp,
                 vulnVars, metaVars, lens, quickPick>>

NextClassify == Classify

SpecClassify == InitClassify /\ [][NextClassify]_vars

\* the numeric component at index i of a version, 0 when it is missing
Component(version, i) == PartOrZero(parseVersion(version).parts, i)

\* C12: getUpdateType(current, candidate) is 'none' when the candidate is
\* empty or equal to the current string; else 'prerelease' when the
\* candidate has a pre-release label and the current has none; else 'major',
\* 'minor' or 'patch' for the first of the indices 0, 1, 2 at which the
\* candidate's component exceeds the current's; else 'prerelease' when both
\* have labels; else 'patch'.
C12_UpdateTypeOrder ==
  out.classified =>
    out.type =
      IF Len(inp.b) = 0 \/ inp.a = inp.b THEN "none"
      ELSE IF isPrerelease(inp.b) /\ ~isPrerelease(inp.a) THEN "prerelease"
      ELSE IF Component(inp.b, 0) > Component(inp.a, 0) THEN "major"
      ELSE IF Component(inp.b, 1) > Component(inp.a, 1) THEN "minor"
      ELSE IF Component(inp.b, 2) > Component(inp.a, 2) THEN "patch"
      ELSE IF isPrerelease(inp.a) /\ isPrerelease(inp.b) THEN "prerelease"
      ELSE "patch"

(***************************************************************************)
(* Specification of the parser: parseVersion applied to a version string   *)
(***************************************************************************)
\* segments of the numeric part: "", "1", "10", "x", "1a", "a1"
Segments ==
  { Empty, <<"1">>, <<"1", "0">>, <<"x">>, <<"1", "a">>, <<"a", "1">> }

ParseInputs ==
  Segments \cup
  { Join(<<s, t>>, ".") \o label :
      s \in Segments, t \in Segments, label \in {Empty, <<"-", "b">>} }

InitParse ==
  /\ now = 0
  /\ versionCache = [k \in Names |-> NoEntry]
  /\ pendingRequests = [k \in Names |-> 0]
  /\ promises = [k \in Keys |-> <<>>]
  /\ calls = [k \in Keys |-> <<>>]
  /\ batch = NoBatch
  /\ inp \in {[NoInput EXCEPT !.a = x] : x \in ParseInputs}
  /\ out = NoOutput
  /\ vulnerabilityCache = NoSnapshot
  /\ vulnCalls = <<>>
  /\ metadataCache = [k \in MetaKeys |-> NoMetaEntry]
  /\ metaCalls = <<>>
  /\ lens = NoLens
  /\ quickPick = NoQuickPick

\* parseVersion(version = inp.a)
ParseVersion ==
  /\ ~out.parsed
  /\ out' = [out EXCEPT !.parsed = TRUE,
                         !.parts = parseVersion(inp.a).parts,
                         !.label = parseVersion(inp.a).prerelease]
  /\ UNCHANGED <<now, versionCache, pendingRequests, promises, calls, batch, inp,
                 vulnVars, metaVars, lens, quickPick>>

NextParse == ParseVersion

SpecParse == InitParse /\ [][NextParse]_vars

\* a non-empty string of decimal digits
PurelyNumeric(segment) ==
  Len(segment) > 0 /\ \A i \in 1..Len(segment) : segment[i] \in Digits

\* C30: parseVersion gives one number per dot-separated segment of the part
\* before the first hyphen: the decimal value of a purely numeric segment,
\* and 0 for every other segment ("x", "1a", "").
C30_NonNumericIsZero ==
  out.parsed =>
    LET segs == Split(Split(inp.a, "-")[1], ".") IN
      /\ Len(out.parts) = Len(segs)
      /\ \A i \in 1..Len(segs) :
           out.parts[i] = IF PurelyNumeric(segs[i])
                            THEN DigitRun(segs[i], 1, 0) ELSE 0

(***************************************************************************)
(* Specification of the ranges: isVersionInRange and                       *)
(* formatVulnerabilityRange applied to a version and a range string        *)
(***************************************************************************)
RangeVersions == {V1_0_0, V1_5_0, V2_0_0, V1_0_0_a, V2_0_0_a}

\* the bounds written in a range; the empty string is an omitted bound
RangeBounds == {Empty, V1_0_0, V2_0_0, V1_0_0_a}

\* the white space written after the comma
Gaps == {Empty, <<" ">>}

\* the range strings of the feed: intervals with two bounds, brackets around
\* a single version, and bare versions
RangeInputs ==
  { [form |-> "interval", open |-> o, min |-> lo, gap |-> g, max |-> hi, close |-> c] :
      o \in Openers, lo \in RangeBounds, g \in Gaps, hi \in RangeBounds, c \in Closers }
  \cup
  { [form |-> "single", open |-> o, min |-> lo, gap |-> Empty, max |-> Empty, close |-> c] :
      o \in Openers, lo \in RangeBounds \ {Empty}, c \in Closers }
  \cup
  { [form |-> "bare", open |-> "", min |-> lo, gap |-> Empty, max |-> Empty, close |-> ""] :
      lo \in RangeBounds \ {Empty} }

\* the string of a range given in its pieces
RangeString(r) ==
  CASE r.form = "interval" ->
         <<r.open>> \o r.min \o <<",">> \o r.gap \o r.max \o <<r.close>>
    [] r.form = "single" -> <<r.open>> \o r.min \o <<r.close>>
    [] OTHER -> r.min

InitRange ==
  /\ now = 0
  /\ versionCache = [k \in Names |-> NoEntry]
  /\ pendingRequests = [k \in Names |-> 0]
  /\ promises = [k \in Keys |-> <<>>]
  /\ calls = [k \in Keys |-> <<>>]
  /\ batch = NoBatch
  /\ inp \in {[NoInput EXCEPT !.a = v, !.range = r] :
                 v \in RangeVersions, r \in RangeInputs}
  /\ out = NoOutput
  /\ vulnerabilityCache = NoSnapshot
  /\ vulnCalls = <<>>
  /\ metadataCache = [k \in MetaKeys |-> NoMetaEntry]
  /\ metaCalls = <<>>
  /\ lens = NoLens
  /\ quickPick = NoQuickPick

\* isVersionInRange(version = inp.a, range)
IsVersionInRange ==
  /\ ~out.checked
  /\ out' = [out EXCEPT !.checked = TRUE,
                         !.inRange = isVersionInRange(inp.a, RangeString(inp.range))]
  /\ UNCHANGED <<now, versionCache, pendingRequests, promises, calls, batch, inp,
                 vulnVars, metaVars, lens, quickPick>>

\* formatVulnerabilityRange(range)
FormatVulnerabilityRange ==
  /\ ~out.rendered
  /\ out' = [out EXCEPT !.rendered = TRUE,
                         !.formatted = formatVulnerabilityRange(RangeString(inp.range))]
  /\ UNCHANGED <<now, versionCache, pendingRequests, promises, calls, batch, inp,
                 vulnVars, metaVars, lens, quickPick>>

NextRange ==
  \/ IsVersionInRange
  \/ FormatVulnerabilityRange

SpecRange == InitRange /\ [][NextRange]_vars

\* C15: for a range bracket, optional min, comma, optional max, bracket,
\* isVersionInRange(v, range) is true exactly when v is not below the min
\* (equal allowed only with '[') and not above the max (equal allowed only
\* with ']'), an omitted bound being unbounded, the order being that of
\* compareVersions; 1.5.0 is in [1.0.0,2.0.0) and 2.0.0 is not, 1.0.0 is not
\* in (1.0.0,2.0.0] and 2.0.0 is.
C15_RangeMembership ==
  (out.checked /\ inp.range.form = "interval") =>
    LET v == inp.a
        r == inp.range
        lowOk == \/ r.min = Empty
                 \/ compareVersions(v, r.min) > 0
                 \/ (r.open = "[" /\ compareVersions(v, r.min) = 0)
        highOk == \/ r.max = Empty
                  \/ compareVersions(v, r.max) < 0
                  \/ (r.close = "]" /\ compareVersions(v, r.max) = 0)
    IN /\ out.inRange = (lowOk /\ highOk)
       /\ RangeString(r) = Interval("[", V1_0_0, V2_0_0, ")") =>
            /\ v = V1_5_0 => out.inRange
            /\ v = V2_0_0 => ~out.inRange
       /\ RangeString(r) = Interval("(", V1_0_0, V2_0_0, "]") =>
            /\ v = V1_0_0 => ~out.inRange
            /\ v = V2_0_0 => out.inRange

\* 1.0.0 was looked up in [1.0.0,2.0.0), written with a blank after the
\* comma, and found in it
C15_Witness ==
  /\ out.checked
  /\ inp.a = V1_0_0
  /\ RangeString(inp.range) = <<"[">> \o V1_0_0 \o <<",", " ">> \o V2_0_0 \o <<")">>
  /\ out.inRange

Rendering(r) ==
  LET lower == (IF r.open = "[" THEN AtLeast ELSE Above) \o <<" ">> \o r.min
      upper == (IF r.close = "]" THEN AtMost ELSE Below) \o <<" ">> \o r.max
  IN CASE r.form = "single" ->
            IF r.open = "[" /\ r.close = "]" THEN Exact \o r.min
            ELSE RangeString(r)
       [] r.form = "interval" ->
            IF r.min # Empty /\ r.min = r.max /\ r.open = "[" /\ r.close = "]"
              THEN Exact \o r.min
            ELSE IF r.min # Empty /\ r.max = Empty THEN lower
            ELSE IF r.min = Empty /\ r.max # Empty THEN upper
            ELSE IF r.min # Empty /\ r.max # Empty THEN lower \o And \o upper
            ELSE RangeString(r)
       [] OTHER -> RangeString(r)

\* C17: formatVulnerabilityRange renders "[X]" and "[X,X]" as "Exact X", a
\* range with one bound as one inequality, a range with two bounds as two
\* inequalities joined by &&, and every other string as it is written:
\* "[1.0.0]" gives "Exact 1.0.0", "[1.0.0,)" gives ">= 1.0.0" and "(,2.0.0)"
\* gives "< 2.0.0".
C17_RangeRendering ==
  out.rendered => out.formatted = Rendering(inp.range)

(***************************************************************************)
(* Specification of the sorted list: one package, the provider answering   *)
(* with any list of up to MaxVersions versions                             *)
(***************************************************************************)
SortCorpus == {V1_0_0_a, V1_0_0_, V1_0_0_b, V1_0_0, V2_0_0_a, V1_2}

RECURSIVE SeqsUpTo(_, _)
\* the sequences over S of length at most n
SeqsUpTo(S, n) ==
  IF n = 0 THEN {<<>>}
  ELSE LET shorter == SeqsUpTo(S, n - 1)
       IN shorter \cup {Append(q, x) : q \in shorter, x \in S}

SortFeeds ==
  { [hasVersions |-> TRUE, versions |-> l] : l \in SeqsUpTo(SortCorpus, MaxVersions) }

MaxSortCalls == 2

GetPackageVersionsOnce(packageId) ==
  /\ CallCount < MaxSortCalls
  /\ SetState(IssueCall(State, packageId, now))
  /\ UNCHANGED <<now, batch, inp, out, vulnVars, metaVars, lens, quickPick>>

\* the callers of getLatestVersion and of getLatestPrereleaseVersion resume
\* after `await getPackageVersions(packageId)` with the list of call c
LatestResolved(k, c) ==
  /\ ~out.resolved
  /\ c \in DOMAIN calls[k]
  /\ calls[k][c].status = "fulfilled"
  /\ out' = [out EXCEPT
       !.resolved = TRUE,
       !.versions = calls[k][c].value,
       !.latest = getLatestVersion(calls[k][c].value),
       !.prerelease = getLatestPrereleaseVersion(calls[k][c].value)]
  /\ UNCHANGED <<now, versionCache, pendingRequests, promises, calls, batch, inp,
                 vulnVars, metaVars, lens, quickPick>>

NextSort ==
  \/ GetPackageVersionsOnce("foo")
  \/ \E p \in 1..MaxSortCalls, outcome \in {"networkError", "notOk", "ok"} :
       FetchSettles("foo", p, outcome)
  \/ \E p \in 1..MaxSortCalls : JsonThrows("foo", p)
  \/ \E p \in 1..MaxSortCalls, body \in SortFeeds : JsonSettles("foo", p, body)
  \/ \E c \in 1..MaxSortCalls : LatestResolved("foo", c)

SpecSort == Init /\ [][NextSort]_vars

Descending(list) ==
  \A i \in 1..(Len(list) - 1) : compareVersions(list[i], list[i + 1]) >= 0

\* C10: every list stored in versionCache and every list returned to a
\* caller is in descending comparator order: each element compares greater
\* than or equal to its successor.
C10_Descending ==
  /\ \A id \in Names :
       versionCache[id] # NoEntry => Descending(versionCache[id].versions)
  /\ \A k \in Keys : \A c \in DOMAIN calls[k] :
       calls[k][c].status = "fulfilled" => Descending(calls[k][c].value)

\* the provider delivered three or more versions in another order than the
\* one that was stored and returned
C10_Witness ==
  \E k \in Keys : \E c \in DOMAIN calls[k] :
    LET p == calls[k][c].promise IN
      /\ p # 0
      /\ calls[k][c].status = "fulfilled"
      /\ Len(promises[k][p].raw) >= 3
      /\ promises[k][p].raw # calls[k][c].value
      /\ versionCache[k].versions = calls[k][c].value

\* the positions of the list that hold a pre-release (a stable) version
PositionsOf(list, wantPrerelease) ==
  {i \in 1..Len(list) : isPrerelease(list[i]) = wantPrerelease}

\* the smallest member of a non-empty set of positions
FirstOf(positions) == CHOOSE i \in positions : \A j \in positions : i <= j

\* C11: on the stored list, getLatestVersion returns the entry without a
\* pre-release label that comes first, and no entry without a label
\* compares greater than it; when no entry is without a label it returns the
\* first entry, and for an empty list the empty string.
\* getLatestPrereleaseVersion returns the entry with a label that comes
\* first, and the empty string when there is none.
C11_LatestVersion ==
  out.resolved =>
    LET list == out.versions
        stable == PositionsOf(list, FALSE)
        labelled == PositionsOf(list, TRUE)
    IN /\ out.latest = IF Len(list) = 0 THEN Empty
                        ELSE IF stable # {} THEN list[FirstOf(stable)]
                        ELSE list[1]
       /\ \A i \in stable : compareVersions(out.latest, list[i]) >= 0
       /\ out.prerelease = IF labelled # {} THEN list[FirstOf(labelled)] ELSE Empty

\* the list starts with a pre-release that numbers above the two different
\* stable versions behind it: the latest version is the first of those, the
\* latest pre-release is the head of the list
C11_Witness ==
  /\ out.resolved
  /\ Len(out.versions) >= 3
  /\ isPrerelease(out.versions[1])
  /\ Cardinality({out.versions[i] : i \in PositionsOf(out.versions, FALSE)}) >= 2
  /\ out.latest # out.versions[1]
  /\ out.prerelease = out.versions[1]

(***************************************************************************)
(* Batch resolution: ExtensionManager.refreshPackageList                   *)
(*                                                                         *)
(* No handler waits for a running refresh, so refreshes overlap.  Each     *)
(* parse creates its own PackageReference objects (batch.objects[r]) and   *)
(* points this.currentPackages at them; a refresh reads                    *)
(* this.currentPackages again after its awaits.  The clock stands still    *)
(* during the refreshes: they take seconds, the cache entries last an hour.*)
(***************************************************************************)
MaxPackages == 2

RECURSIVE IssueAll(_, _, _)
\* packageIds.map(async (id) => ...): the calls are made one after the other
\* before anything is awaited
IssueAll(st, ids, t) ==
  IF Len(ids) = 0 THEN st
  ELSE IssueAll(IssueCall(st, Head(ids), t), Tail(ids), t)

\* the position in calls[k] of the call IssueAll makes for the i-th id
IssuedAt(ids, i) ==
  Len(calls[toLowerCase(ids[i])])
    + Cardinality({j \in 1..i : toLowerCase(ids[j]) = toLowerCase(ids[i])})

\* the getPackageVersions call behind getLatestVersion(packageNames[i])
LatestCall(run, i) == calls[toLowerCase(run.names[i])][run.latestCalls[i]]

\* the getPackageVersions call behind getLatestPrereleaseVersion(pkg.name)
\* of the i-th closure
PrereleaseCall(run, i) ==
  calls[toLowerCase(batch.objects[run.over][i].name)][run.closures[i].prereleaseCall]

\* pkg.updateType not set
NoUpdateType == "undefined"

\* the objects this.currentPackages points at
CurrentPackages ==
  IF batch.currentPackages = 0 THEN <<>> ELSE batch.objects[batch.currentPackages]

\* the package references of the project files
PackageRefs ==
  { [name |-> "Foo", currentVersion |-> V1_0_0],
    [name |-> "bar", currentVersion |-> V2_1_0_b] }

\* the packages parseCsproj delivers
ParsedPackages == SeqsUpTo(PackageRefs, MaxPackages)

\* refreshPackageList starts: sendLoading, then
\* parseCsproj(this.currentProjectPath) is awaited
refreshPackageList(r) ==
  /\ batch.runs[r].phase = "idle"
  /\ \A q \in Refreshes : q < r => batch.runs[q].phase # "idle"
  /\ batch' = [batch EXCEPT !.runs[r].phase = "parsing",
                            !.runs[r].path = batch.currentProjectPath]
  /\ UNCHANGED <<now, versionCache, pendingRequests, promises, calls, inp, out, vulnVars, metaVars, lens,
                 quickPick>>

\* parseCsproj reports an error: sendError, return
ParseCsprojFails(r) ==
  /\ batch.runs[r].phase = "parsing"
  /\ batch' = [batch EXCEPT !.runs[r].phase = "parseError"]
  /\ UNCHANGED <<now, versionCache, pendingRequests, promises, calls, inp, out, vulnVars, metaVars, lens,
                 quickPick>>

\* parseCsproj delivers the packages: they become this.currentPackages, and
\* getLatestVersions makes one getPackageVersions call per package; with no
\* package the empty list is sent at once
ParseCsprojSettles(r, packages) ==
  /\ batch.runs[r].phase = "parsing"
  /\ LET ids == [i \in 1..Len(packages) |-> packages[i].name]
     IN /\ SetState(IssueAll(State, ids, now))
        /\ batch' = [batch EXCEPT
             !.currentPackages = r,
             !.objects[r] = [i \in 1..Len(packages) |->
                [ name |-> packages[i].name,
                  currentVersion |-> packages[i].currentVersion,
                  latestVersion |-> Undefined,
                  isUpdateAvailable |-> FALSE,
                  updateType |-> NoUpdateType,
                  prereleaseVersion |-> Undefined ]],
             !.runs[r] = IF Len(packages) > 0
                THEN [@ EXCEPT !.phase = "latest",
                               !.names = ids,
                               !.latestCalls = [i \in 1..Len(ids) |-> IssuedAt(ids, i)]]
                ELSE [@ EXCEPT !.phase = "sent",
                               !.sentPath = batch.currentProjectPath]]
  /\ UNCHANGED <<now, inp, out, vulnVars, metaVars, lens, quickPick>>

\* latestVersions.get(name) || '': results.set(id, version) keeps the value
\* of the last package of that name
LatestFor(run, name) ==
  LET same == {j \in DOMAIN run.names : run.names[j] = name}
  IN IF same = {} THEN Empty
     ELSE getLatestVersion(
            LatestCall(run, CHOOSE j \in same : \A i \in same : i <= j).value)

\* !!latest && latest !== pkg.currentVersion && compareVersions(...) > 0
IsUpdateAvailable(latest, currentVersion) ==
  /\ Len(latest) > 0
  /\ latest # currentVersion
  /\ compareVersions(latest, currentVersion) > 0

\* the closure of refreshPackageList up to its first await, for one package
Examined(pkg, latest) ==
  LET avail == IsUpdateAvailable(latest, pkg.currentVersion)
  IN [pkg EXCEPT
        !.latestVersion = latest,
        !.isUpdateAvailable = avail,
        !.updateType = IF avail THEN getUpdateType(pkg.currentVersion, latest)
                       ELSE @]

\* Promise.all of getLatestVersions resolved: for every package of
\* this.currentPackages a closure starts, which sets the latest version, the
\* update flag and the update type and calls getLatestPrereleaseVersion
GetLatestVersionsSettles(r) ==
  /\ batch.runs[r].phase = "latest"
  /\ \A i \in DOMAIN batch.runs[r].names :
       LatestCall(batch.runs[r], i).status = "fulfilled"
  /\ LET over == batch.currentPackages
         pkgs == batch.objects[over]
         ids == [i \in DOMAIN pkgs |-> pkgs[i].name]
     IN /\ SetState(IssueAll(State, ids, now))
        /\ batch' = [batch EXCEPT
             !.objects[over] = [i \in DOMAIN pkgs |->
                Examined(pkgs[i], LatestFor(batch.runs[r], pkgs[i].name))],
             !.runs[r] = [@ EXCEPT
                !.phase = "details",
                !.over = over,
                !.closures = [i \in DOMAIN pkgs |->
                   [ stage |-> "prerelease",
                     latest |-> LatestFor(batch.runs[r], pkgs[i].name),
                     prereleaseCall |-> IssuedAt(ids, i) ]]]]
  /\ UNCHANGED <<now, inp, out, vulnVars, metaVars, lens, quickPick>>

\* an awaited getPackageVersions call rejected: Promise.all rejects and the
\* catch block sends 'Error loading packages'
RefreshFails(r) ==
  /\ \/ /\ batch.runs[r].phase = "latest"
        /\ \E i \in DOMAIN batch.runs[r].names :
             LatestCall(batch.runs[r], i).status = "rejected"
     \/ /\ batch.runs[r].phase = "details"
        /\ \E i \in DOMAIN batch.runs[r].closures :
             /\ batch.runs[r].closures[i].stage = "prerelease"
             /\ PrereleaseCall(batch.runs[r], i).status = "rejected"
  /\ batch' = [batch EXCEPT !.runs[r].phase = "error"]
  /\ UNCHANGED <<now, versionCache, pendingRequests, promises, calls, inp, out, vulnVars, metaVars, lens,
                 quickPick>>

\* prereleaseVersion && compareVersions(prereleaseVersion, latest) > 0
PrereleaseGate(prereleaseVersion, latest) ==
  /\ Len(prereleaseVersion) > 0
  /\ compareVersions(prereleaseVersion, latest) > 0

\* the closures of a refresh run on after one of them has rejected
Running(run) == run.phase \in {"details", "error"}

\* getLatestPrereleaseVersion of the i-th closure resolved;
\* getVulnerabilities is called next
PrereleaseSettles(r, i) ==
  /\ Running(batch.runs[r])
  /\ i \in DOMAIN batch.runs[r].closures
  /\ batch.runs[r].closures[i].stage = "prerelease"
  /\ PrereleaseCall(batch.runs[r], i).status = "fulfilled"
  /\ LET run == batch.runs[r]
         prereleaseVersion ==
           getLatestPrereleaseVersion(PrereleaseCall(run, i).value)
     IN batch' = [batch EXCEPT
          !.runs[r].closures[i].stage = "vulnerabilities",
          !.objects[run.over][i].prereleaseVersion =
             IF PrereleaseGate(prereleaseVersion, run.closures[i].latest)
               THEN prereleaseVersion ELSE @]
  /\ UNCHANGED <<now, versionCache, pendingRequests, promises, calls, inp, out, vulnVars, metaVars, lens,
                 quickPick>>

\* getVulnerabilities of the i-th closure resolved; getPackageMetadata is
\* called
VulnerabilitiesSettle(r, i) ==
  /\ Running(batch.runs[r])
  /\ i \in DOMAIN batch.runs[r].closures
  /\ batch.runs[r].closures[i].stage = "vulnerabilities"
  /\ batch' = [batch EXCEPT !.runs[r].closures[i].stage = "metadata"]
  /\ UNCHANGED <<now, versionCache, pendingRequests, promises, calls, inp, out, vulnVars, metaVars, lens,
                 quickPick>>

\* getPackageMetadata of the i-th closure resolved
MetadataSettles(r, i) ==
  /\ Running(batch.runs[r])
  /\ i \in DOMAIN batch.runs[r].closures
  /\ batch.runs[r].closures[i].stage = "metadata"
  /\ batch' = [batch EXCEPT !.runs[r].closures[i].stage = "done"]
  /\ UNCHANGED <<now, versionCache, pendingRequests, promises, calls, inp, out, vulnVars, metaVars, lens,
                 quickPick>>

\* an entry of packageListForWebview
ForWebview(pkg) ==
  [ name |-> pkg.name,
    currentVersion |-> pkg.currentVersion,
    latestVersion |-> IF pkg.latestVersion = Undefined THEN Empty
                      ELSE pkg.latestVersion,
    updateAvailable |-> pkg.isUpdateAvailable,
    updateType |-> pkg.updateType,
    prereleaseVersion |-> pkg.prereleaseVersion ]

\* every closure is done: this.currentPackages is sent to the webview with
\* this.currentProjectPath
updatePackageList(r) ==
  /\ batch.runs[r].phase = "details"
  /\ \A i \in DOMAIN batch.runs[r].closures : batch.runs[r].closures[i].stage = "done"
  /\ batch' = [batch EXCEPT
       !.runs[r].phase = "sent",
       !.runs[r].sentPath = batch.currentProjectPath,
       !.runs[r].sent = [i \in DOMAIN CurrentPackages |-> ForWebview(CurrentPackages[i])]]
  /\ UNCHANGED <<now, versionCache, pendingRequests, promises, calls, inp, out, vulnVars, metaVars, lens,
                 quickPick>>

BatchFeeds ==
  { [hasVersions |-> TRUE, versions |-> <<V2_0_0, V2_1_0_b>>],
    [hasVersions |-> TRUE, versions |-> <<V2_0_0, V1_9_0_b>>] }

\* a refresh makes two calls per package
MaxBatchCalls == 2 * MaxPackages * Cardinality(Refreshes)

\* refresh r has a continuation whose awaited promise has settled
Resumable(r) ==
  LET run == batch.runs[r] IN
    \/ /\ run.phase = "latest"
       /\ \/ \A i \in DOMAIN run.names : LatestCall(run, i).status = "fulfilled"
          \/ \E i \in DOMAIN run.names : LatestCall(run, i).status = "rejected"
    \/ /\ Running(run)
       /\ \E i \in DOMAIN run.closures :
            /\ run.closures[i].stage = "prerelease"
            /\ \/ PrereleaseCall(run, i).status = "fulfilled"
               \/ (run.phase = "details" /\ PrereleaseCall(run, i).status = "rejected")
    \/ /\ run.phase = "details"
       /\ \A i \in DOMAIN run.closures : run.closures[i].stage = "done"

\* promise reactions run before the next event is taken from the queue
MicrotasksPending == \E r \in Refreshes : Resumable(r)

NextBatch ==
  \/ /\ ~MicrotasksPending
     /\ \E r \in Refreshes : refreshPackageList(r)
  \/ /\ ~MicrotasksPending
     /\ \E r \in Refreshes : ParseCsprojFails(r)
  \/ /\ ~MicrotasksPending
     /\ \E r \in Refreshes, packages \in ParsedPackages : ParseCsprojSettles(r, packages)
  \/ /\ ~MicrotasksPending
     /\ \E k \in Keys, p \in 1..MaxBatchCalls,
           outcome \in {"networkError", "notOk", "ok"} : FetchSettles(k, p, outcome)
  \/ /\ ~MicrotasksPending
     /\ \E k \in Keys, p \in 1..MaxBatchCalls : JsonThrows(k, p)
  \/ /\ ~MicrotasksPending
     /\ \E k \in Keys, p \in 1..MaxBatchCalls, body \in BatchFeeds :
          JsonSettles(k, p, body)
  \/ \E r \in Refreshes : GetLatestVersionsSettles(r)
  \/ \E r \in Refreshes : RefreshFails(r)
  \/ \E r \in Refreshes, i \in 1..MaxPackages : PrereleaseSettles(r, i)
  \/ /\ ~MicrotasksPending
     /\ \E r \in Refreshes, i \in 1..MaxPackages : VulnerabilitiesSettle(r, i)
  \/ /\ ~MicrotasksPending
     /\ \E r \in Refreshes, i \in 1..MaxPackages : MetadataSettles(r, i)
  \/ \E r \in Refreshes : updatePackageList(r)

SpecBatch == Init /\ [][NextBatch]_vars

\* C4: when the provider fails for one package of a refresh, the refresh
\* does not end in an error: the list is delivered, and every package whose
\* lookup did not fail has its own latest version.
C4_BatchIsolation ==
  \A r \in Refreshes :
    LET run == batch.runs[r] IN
      ( /\ run.phase \in {"sent", "error"}
        /\ \E i \in DOMAIN run.names : LatestCall(run, i).status = "rejected" )
      => /\ run.phase = "sent"
         /\ \A i \in DOMAIN run.names :
              LatestCall(run, i).status = "fulfilled" =>
                \E e \in DOMAIN run.sent :
                  /\ run.sent[e].name = run.names[i]
                  /\ run.sent[e].latestVersion = LatestFor(run, run.names[i])

\* C13: in every list sent to the webview, updateAvailable of a package is
\* true exactly when its latest version is not empty, differs from the
\* current version string and compares greater than it; an update type is
\* attached only when updateAvailable is true.
C13_UpdateAvailable ==
  \A r \in Refreshes : \A e \in DOMAIN batch.runs[r].sent :
    LET pkg == batch.runs[r].sent[e] IN
      /\ pkg.updateAvailable <=>
           /\ Len(pkg.latestVersion) > 0
           /\ pkg.latestVersion # pkg.currentVersion
           /\ compareVersions(pkg.latestVersion, pkg.currentVersion) > 0
      /\ pkg.updateType # NoUpdateType => pkg.updateAvailable

\* C14: in every list sent to the webview, a package has a prereleaseVersion
\* only if that version compares strictly greater than its latest version.
C14_PrereleaseGate ==
  \A r \in Refreshes : \A e \in DOMAIN batch.runs[r].sent :
    LET pkg == batch.runs[r].sent[e] IN
      pkg.prereleaseVersion # Undefined =>
        compareVersions(pkg.prereleaseVersion, pkg.latestVersion) > 0

(***************************************************************************)
(* Specification of the refreshes with a change of the selected project    *)
(***************************************************************************)
\* the project files of the workspace
Projects == {"a.csproj", "b.csproj"}

\* the packages each project file holds
ProjectFiles ==
  [ projectPath \in Projects |->
      IF projectPath = "a.csproj"
        THEN << [name |-> "Foo", currentVersion |-> V1_0_0] >>
        ELSE << [name |-> "bar", currentVersion |-> V2_1_0_b] >> ]

\* handleSelectProject(projectPath): this.currentProjectPath is set and
\* refreshPackageList runs up to its first await
handleSelectProject(r, projectPath) ==
  /\ batch.runs[r].phase = "idle"
  /\ \A q \in Refreshes : q < r => batch.runs[q].phase # "idle"
  /\ batch' = [batch EXCEPT !.currentProjectPath = projectPath,
                            !.runs[r].phase = "parsing",
                            !.runs[r].path = projectPath]
  /\ UNCHANGED <<now, versionCache, pendingRequests, promises, calls, inp, out, vulnVars, metaVars, lens,
                 quickPick>>

\* parseCsproj delivers the packages of the file it was called for
ParseCsprojSettlesFor(r) ==
  /\ batch.runs[r].path \in Projects
  /\ ParseCsprojSettles(r, ProjectFiles[batch.runs[r].path])

\* the versions of the feed in the project switch
ProjectFeeds == { [hasVersions |-> TRUE, versions |-> <<V2_0_0, V2_1_0_b>>] }

NextProject ==
  \/ /\ ~MicrotasksPending
     /\ \E r \in Refreshes : refreshPackageList(r)
  \/ /\ ~MicrotasksPending
     /\ \E r \in Refreshes, projectPath \in Projects :
          handleSelectProject(r, projectPath)
  \/ /\ ~MicrotasksPending
     /\ \E r \in Refreshes : ParseCsprojFails(r)
  \/ /\ ~MicrotasksPending
     /\ \E r \in Refreshes : ParseCsprojSettlesFor(r)
  \/ /\ ~MicrotasksPending
     /\ \E k \in Keys, p \in 1..MaxBatchCalls,
           outcome \in {"notOk", "ok"} : FetchSettles(k, p, outcome)
  \/ /\ ~MicrotasksPending
     /\ \E k \in Keys, p \in 1..MaxBatchCalls, body \in ProjectFeeds :
          JsonSettles(k, p, body)
  \/ \E r \in Refreshes : GetLatestVersionsSettles(r)
  \/ \E r \in Refreshes : RefreshFails(r)
  \/ \E r \in Refreshes, i \in 1..MaxPackages : PrereleaseSettles(r, i)
  \/ /\ ~MicrotasksPending
     /\ \E r \in Refreshes, i \in 1..MaxPackages : VulnerabilitiesSettle(r, i)
  \/ /\ ~MicrotasksPending
     /\ \E r \in Refreshes, i \in 1..MaxPackages : MetadataSettles(r, i)
  \/ \E r \in Refreshes : updatePackageList(r)

SpecProject == Init /\ [][NextProject]_vars

MaxParses == 2

\* the number of PackageReference lines of a document
MaxReferences == 1

\* the PackageReference lines the document can hold
LensDocuments ==
  << << [name |-> "Foo", version |-> V1_0_0_b] >>,
     << [name |-> "Foo", version |-> V2_0_0] >> >>

\* the sorted lists getPackageVersions resolves with
LensFeeds ==
  { <<>>, <<V2_1_0_b, V2_0_0, V1_0_0_b>>, <<V2_1_0, V1_0_0_b>> }

\* !value of a `string | null`
Missing(value) == value = Null \/ Len(value) = 0

\* Number(segment) || 0 of a string of digits
NumberOrZero(parts, i) ==
  IF i <= Len(parts) THEN DigitRun(parts[i], 1, 0) ELSE 0

\* version.replace(/[^\d.]/g, "").split(".")
NumericParts(version) ==
  Split(SelectSeq(version, LAMBDA ch : ch \in Digits \cup {"."}), ".")

RECURSIVE UpToDateFrom(_, _, _)
\* the loop of isVersionUpToDate from index i (1-based)
UpToDateFrom(currentParts, latestParts, i) ==
  IF i > Max(Len(currentParts), Len(latestParts)) THEN TRUE
  ELSE IF NumberOrZero(currentParts, i) < NumberOrZero(latestParts, i) THEN FALSE
  ELSE IF NumberOrZero(currentParts, i) > NumberOrZero(latestParts, i) THEN TRUE
  ELSE UpToDateFrom(currentParts, latestParts, i + 1)

isVersionUpToDate(current, latest) ==
  IF Missing(latest) THEN TRUE
  ELSE IF current = latest THEN TRUE
  ELSE UpToDateFrom(NumericParts(current), NumericParts(latest), 1)

(***************************************************************************)
(* Specification of the CodeLens comparison: isVersionUpToDate applied to  *)
(* a current and a latest version                                          *)
(***************************************************************************)
\* isVersionUpToDate(current = inp.a, latest = inp.b)
IsVersionUpToDate ==
  /\ ~out.decided
  /\ out' = [out EXCEPT !.decided = TRUE,
                         !.upToDate = isVersionUpToDate(inp.a, inp.b)]
  /\ UNCHANGED <<now, versionCache, pendingRequests, promises, calls, batch, inp,
                 vulnVars, metaVars, lens, quickPick>>

NextUpToDate == IsVersionUpToDate

SpecUpToDate == InitClassify /\ [][NextUpToDate]_vars

\* C32: isVersionUpToDate(current, latest) is false exactly when latest is
\* not empty and compareVersions(latest, current) > 0.
C32_AgreesWithComparator ==
  out.decided =>
    (~out.upToDate <=> (Len(inp.b) > 0 /\ compareVersions(inp.b, inp.a) > 0))

(***************************************************************************)
(* The packages of a document and their CodeLenses                         *)
(***************************************************************************)
\* one element of parsePackageReferences(document); fetch is the outcome of
\* the version fetch of the package, for the record
ParsedReference(ref) ==
  [ packageName |-> ref.name, currentVersion |-> ref.version,
    latestVersion |-> Null, latestPrereleaseVersion |-> Null,
    isChecking |-> TRUE, isUpdating |-> FALSE, fetch |-> "pending" ]

parsePackageReferences(document) ==
  [i \in 1..Len(document) |-> ParsedReference(document[i])]

\* the title that treats a package without a latest version as up to date
StatusTitleWithoutFailure(pkg, hasStableUpdate, hasPrereleaseUpdate) ==
  IF hasStableUpdate
    THEN [title |-> "Update to", version |-> pkg.latestVersion]
  ELSE IF hasPrereleaseUpdate
    THEN [title |-> "Update to (Pre-Release)",
          version |-> pkg.latestPrereleaseVersion]
  ELSE IF isPrerelease(pkg.currentVersion)
    THEN [title |-> "Latest Pre-Release", version |-> Empty]
  ELSE [title |-> "Latest Stable", version |-> Empty]

\* the main status CodeLens of a package that is neither being checked nor
\* being updated
StatusTitle(pkg, hasStableUpdate, hasPrereleaseUpdate) ==
  IF Missing(pkg.latestVersion) /\ ~pkg.isChecking
    THEN [title |-> "Version Check Failed", version |-> Empty]
  ELSE StatusTitleWithoutFailure(pkg, hasStableUpdate, hasPrereleaseUpdate)

\* the title of the CodeLens that provideCodeLenses pushes for a package
Title(pkg) ==
  LET hasStableUpdate ==
        /\ ~Missing(pkg.latestVersion)
        /\ ~isVersionUpToDate(pkg.currentVersion, pkg.latestVersion)
      hasPrereleaseUpdate ==
        /\ isPrerelease(pkg.currentVersion)
        /\ ~Missing(pkg.latestPrereleaseVersion)
        /\ ~Missing(pkg.latestVersion)
        /\ pkg.latestPrereleaseVersion # pkg.currentVersion
        /\ compareVersions(pkg.latestPrereleaseVersion, pkg.latestVersion) > 0
  IN IF pkg.isChecking THEN [title |-> "Checking...", version |-> Empty]
     ELSE IF pkg.isUpdating THEN [title |-> "Updating...", version |-> Empty]
     ELSE StatusTitle(pkg, hasStableUpdate, hasPrereleaseUpdate)

\* documentPackageCache.get(documentUri), <<>> when there is no entry
CachedPackages(l) ==
  IF l.cached = 0 THEN <<>> ELSE l.generations[l.cached]

\* packages.find((p) => p.packageName === packageName), 0 when none
FindPackage(packages, packageName) ==
  IF \E i \in DOMAIN packages : packages[i].packageName = packageName
    THEN CHOOSE i \in DOMAIN packages :
           /\ packages[i].packageName = packageName
           /\ \A j \in 1..(i - 1) : packages[j].packageName # packageName
    ELSE 0

\* provideCodeLenses(document) when the cache has no entry: the document is
\* parsed, the list is cached and fetchVersionsAsync starts; with an entry
\* the lenses are rendered from it and nothing changes
ProvideCodeLenses ==
  /\ lens.open
  /\ lens.cached = 0
  /\ Len(lens.generations) < MaxParses
  /\ lens' = [lens EXCEPT
       !.generations = Append(@, parsePackageReferences(LensDocuments[lens.document])),
       !.parsedFrom = Append(@, lens.document),
       !.cached = Len(lens.generations) + 1]
  /\ UNCHANGED <<now, versionCache, pendingRequests, promises, calls, batch,
                 inp, out, vulnVars, metaVars, quickPick>>

\* the closure of fetchVersionsAsync for package i of the list g has ended
\* and left the list as `packages`; when it is the last one of the list,
\* documentPackageCache.set(uri, packages) runs and the change of the
\* CodeLenses is fired
ClosureEnds(g, packages) ==
  LET last == \A j \in DOMAIN packages : packages[j].fetch # "pending"
  IN lens' = [lens EXCEPT
       !.generations[g] = packages,
       !.cached = IF last THEN g ELSE @,
       !.fired = IF last THEN @ \cup {g} ELSE @]

\* the closure ends with the fields given and isChecking = false
Checked(g, i, latestVersion, latestPrereleaseVersion, fetch) ==
  ClosureEnds(g, [lens.generations[g] EXCEPT
                    ![i].latestVersion = latestVersion,
                    ![i].latestPrereleaseVersion = latestPrereleaseVersion,
                    ![i].isChecking = FALSE,
                    ![i].fetch = fetch])

\* a catch block that ends the closure before the flag is cleared
CheckRejectsKeepsChecking(g, i) ==
  /\ g \in DOMAIN lens.generations
  /\ i \in DOMAIN lens.generations[g]
  /\ lens.generations[g][i].fetch = "pending"
  /\ ClosureEnds(g, [lens.generations[g] EXCEPT ![i].fetch = "failed"])
  /\ UNCHANGED <<now, versionCache, pendingRequests, promises, calls, batch,
                 inp, out, vulnVars, metaVars, quickPick>>

\* Promise.all([getLatestVersion, getLatestPrereleaseVersion,
\* getVulnerabilities]) rejects: catch
CheckRejects(g, i) ==
  /\ g \in DOMAIN lens.generations
  /\ i \in DOMAIN lens.generations[g]
  /\ lens.generations[g][i].fetch = "pending"
  /\ Checked(g, i, Null, Null, "failed")
  /\ UNCHANGED <<now, versionCache, pendingRequests, promises, calls, batch,
                 inp, out, vulnVars, metaVars, quickPick>>

\* Promise.all(...) fulfils; versions is the list getPackageVersions gave to
\* getLatestVersion and getLatestPrereleaseVersion
CheckSettles(g, i, versions) ==
  /\ g \in DOMAIN lens.generations
  /\ i \in DOMAIN lens.generations[g]
  /\ lens.generations[g][i].fetch = "pending"
  /\ Checked(g, i, getLatestVersion(versions),
             getLatestPrereleaseVersion(versions),
             IF Len(versions) = 0 THEN "empty" ELSE "ok")
  /\ UNCHANGED <<now, versionCache, pendingRequests, promises, calls, batch,
                 inp, out, vulnVars, metaVars, quickPick>>

\* onDidChangeTextDocument: the document holds other lines, its cache entry
\* is deleted
DocumentChanges(d) ==
  /\ lens.open
  /\ d \in DOMAIN LensDocuments
  /\ d # lens.document
  /\ lens' = [lens EXCEPT !.document = d, !.cached = 0]
  /\ UNCHANGED <<now, versionCache, pendingRequests, promises, calls, batch,
                 inp, out, vulnVars, metaVars, quickPick>>

\* onDidSaveTextDocument: the cache entry of the document is deleted, its
\* text is the same
DocumentSaved ==
  /\ lens.open
  /\ lens.cached # 0
  /\ lens' = [lens EXCEPT !.cached = 0]
  /\ UNCHANGED <<now, versionCache, pendingRequests, promises, calls, batch,
                 inp, out, vulnVars, metaVars, quickPick>>

\* onDidCloseTextDocument: the cache entry of the document is deleted; the
\* closures of fetchVersionsAsync already started go on
DocumentCloses ==
  /\ lens.open
  /\ lens' = [lens EXCEPT !.open = FALSE, !.cached = 0]
  /\ UNCHANGED <<now, versionCache, pendingRequests, promises, calls, batch,
                 inp, out, vulnVars, metaVars, quickPick>>

\* handleUpdatePackageInline(projectPath, packageName, version) up to the
\* await; one update runs at a time
UpdatePackageInline(packageName) ==
  /\ lens.updating = <<>>
  /\ LET packages == CachedPackages(lens)
         i == FindPackage(packages, packageName)
     IN IF i # 0
          THEN lens' = [lens EXCEPT
                 !.generations[lens.cached][i].isUpdating = TRUE,
                 !.updating = <<lens.cached, i>>]
          ELSE lens' = [lens EXCEPT !.updating = <<0, 0>>]
  /\ UNCHANGED <<now, versionCache, pendingRequests, promises, calls, batch,
                 inp, out, vulnVars, metaVars, quickPick>>

\* updatePackage settles: on success the cache entry of the document is
\* deleted; finally the flag of the package found at the start is reset
UpdateSettles(success) ==
  /\ lens.updating # <<>>
  /\ LET g == lens.updating[1]
         i == lens.updating[2]
         reset == IF g = 0 THEN lens.generations
                  ELSE [lens.generations EXCEPT ![g][i].isUpdating = FALSE]
     IN lens' = [lens EXCEPT
          !.generations = reset,
          !.cached = IF success THEN 0 ELSE @,
          !.updating = <<>>]
  /\ UNCHANGED <<now, versionCache, pendingRequests, promises, calls, batch,
                 inp, out, vulnVars, metaVars, quickPick>>

\* the target of a package in handleUpgradeAllPackages
TargetVersion(mode, cachedPkg) ==
  IF /\ mode = "all"
     /\ isPrerelease(cachedPkg.currentVersion)
     /\ ~Missing(cachedPkg.latestPrereleaseVersion)
    THEN cachedPkg.latestPrereleaseVersion
    ELSE cachedPkg.latestVersion

\* whether the loop of handleUpgradeAllPackages pushes the package
Selected(mode, cachedPkg) ==
  /\ ~Missing(cachedPkg.latestVersion)
  /\ ~isVersionUpToDate(cachedPkg.currentVersion, cachedPkg.latestVersion)
  /\ mode = "minor" =>
       getUpdateType(cachedPkg.currentVersion, cachedPkg.latestVersion)
         \in {"minor", "patch"}
  /\ (mode = "all" /\ ~isPrerelease(cachedPkg.currentVersion)) =>
       ~isPrerelease(cachedPkg.latestVersion)

RECURSIVE PackagesToUpdate(_, _, _, _)
\* the loop over parseResult.packages from index i; parsedVersion is the
\* version the project file holds for the package, for the record
PackagesToUpdate(mode, parsed, cachedPackages, i) ==
  IF i > Len(parsed) THEN <<>>
  ELSE LET c == FindPackage(cachedPackages, parsed[i].name)
           rest == PackagesToUpdate(mode, parsed, cachedPackages, i + 1)
       IN IF c = 0 THEN rest
          ELSE IF ~Selected(mode, cachedPackages[c]) THEN rest
          ELSE << [ name |-> cachedPackages[c].packageName,
                    currentVersion |-> cachedPackages[c].currentVersion,
                    targetVersion |-> TargetVersion(mode, cachedPackages[c]),
                    parsedVersion |-> parsed[i].version ] >> \o rest

\* handleUpgradeAllPackages(projectPath) from the choice of the mode to the
\* start of the upgrades; it returns when there is nothing to upgrade
UpgradeAllPackages(mode) ==
  /\ lens.upgrading = "no"
  /\ LET packagesToUpdate ==
           PackagesToUpdate(mode, LensDocuments[lens.document],
                            CachedPackages(lens), 1)
     IN lens' = [lens EXCEPT
          !.packagesToUpdate = packagesToUpdate,
          !.upgrading = IF Len(packagesToUpdate) = 0 THEN "no" ELSE mode]
  /\ UNCHANGED <<now, versionCache, pendingRequests, promises, calls, batch,
                 inp, out, vulnVars, metaVars, quickPick>>

\* the upgrades have run: clearCacheForProject(projectPath)
UpgradeAllSettles ==
  /\ lens.upgrading # "no"
  /\ lens' = [lens EXCEPT !.upgrading = "no", !.packagesToUpdate = <<>>,
                          !.cached = 0]
  /\ UNCHANGED <<now, versionCache, pendingRequests, promises, calls, batch,
                 inp, out, vulnVars, metaVars, quickPick>>

NextLens ==
  \/ ProvideCodeLenses
  \/ \E g \in 1..MaxParses, i \in 1..MaxReferences : CheckRejects(g, i)
  \/ \E g \in 1..MaxParses, i \in 1..MaxReferences, versions \in LensFeeds :
       CheckSettles(g, i, versions)
  \/ \E d \in DOMAIN LensDocuments : DocumentChanges(d)
  \/ DocumentSaved
  \/ DocumentCloses
  \/ \E packageName \in {"Foo", "bar"} : UpdatePackageInline(packageName)
  \/ \E success \in BOOLEAN : UpdateSettles(success)
  \/ \E mode \in {"all", "minor", "major"} : UpgradeAllPackages(mode)
  \/ UpgradeAllSettles

SpecLens == Init /\ [][NextLens]_vars

\* a package of the cached list whose version fetch was rejected or gave no
\* versions, after its check has finished
CheckFailed(pkg) == pkg.fetch \in {"failed", "empty"} /\ ~pkg.isChecking

\* C27: a package whose version fetch failed or returned no versions is
\* rendered, once its check has finished, as "Version Check Failed", or as
\* "Updating..." while an inline update of the package runs; it is never
\* rendered as "Latest Stable", "Latest Pre-Release" or an update offer.
C27_CheckFailedOrUpdating ==
  \A i \in DOMAIN CachedPackages(lens) :
    LET pkg == CachedPackages(lens)[i] IN
      CheckFailed(pkg) =>
        Title(pkg).title =
          IF pkg.isUpdating THEN "Updating..." ELSE "Version Check Failed"

\* the list in the cache holds a package whose fetch was rejected, rendered
\* as "Version Check Failed", and it is the list of an earlier parse than
\* the latest one
C27_Witness ==
  /\ lens.cached # 0 /\ lens.cached < Len(lens.generations)
  /\ \E i \in DOMAIN CachedPackages(lens) :
       /\ CachedPackages(lens)[i].fetch = "failed"
       /\ ~CachedPackages(lens)[i].isChecking
       /\ Title(CachedPackages(lens)[i]).title = "Version Check Failed"

\* C27 as stated: a package whose version fetch failed or returned no
\* versions is rendered, once its check has finished, as "Version Check
\* Failed".
C27_CheckFailed ==
  \A i \in DOMAIN CachedPackages(lens) :
    CheckFailed(CachedPackages(lens)[i]) =>
      Title(CachedPackages(lens)[i]).title = "Version Check Failed"

\* C28: in the mode 'all', no package whose version in the project file is
\* stable is given a pre-release as its target version.
C28_StableStaysStable ==
  lens.upgrading = "all" =>
    \A e \in DOMAIN lens.packagesToUpdate :
      ~isPrerelease(lens.packagesToUpdate[e].parsedVersion) =>
        ~isPrerelease(lens.packagesToUpdate[e].targetVersion)

\* C33: in the mode 'minor', every package handed to the upgrade has a target
\* version whose major number equals the major number of the version the
\* project file holds for it.
C33_MinorKeepsMajor ==
  lens.upgrading = "minor" =>
    \A e \in DOMAIN lens.packagesToUpdate :
      Component(lens.packagesToUpdate[e].targetVersion, 0) =
        Component(lens.packagesToUpdate[e].parsedVersion, 0)

\* C34: every package handed to the upgrade has a target version strictly
\* newer than its current version under compareVersions, in every mode.
C34_TargetStrictlyNewer ==
  lens.upgrading # "no" =>
    \A e \in DOMAIN lens.packagesToUpdate :
      compareVersions(lens.packagesToUpdate[e].targetVersion,
                      lens.packagesToUpdate[e].currentVersion) > 0

\* no closure of fetchVersionsAsync is still waiting for its lookups
NoFetchInFlight ==
  \A g \in DOMAIN lens.generations : \A i \in DOMAIN lens.generations[g] :
    lens.generations[g][i].fetch # "pending"

\* C35: once every version fetch has completed, a closed document has no
\* entry in documentPackageCache, and the entry of an open document is a list
\* parsed from the text the document holds now.
C35_NoStaleListPutBack ==
  NoFetchInFlight =>
    IF lens.open
      THEN lens.cached # 0 => lens.parsedFrom[lens.cached] = lens.document
      ELSE lens.cached = 0

(***************************************************************************)
(* Specification of the version checks of the CodeLens provider with       *)
(* network calls that settle: the lookups awaited by each closure of       *)
(* fetchVersionsAsync are eventually fulfilled or rejected                 *)
(***************************************************************************)
\* the lookups of package i of the list g settle, either way
LookupsSettle(g, i) ==
  \/ CheckRejects(g, i)
  \/ \E versions \in LensFeeds : CheckSettles(g, i, versions)

NextChecking ==
  \/ ProvideCodeLenses
  \/ \E g \in 1..MaxParses, i \in 1..MaxReferences : LookupsSettle(g, i)
  \/ \E d \in DOMAIN LensDocuments : DocumentChanges(d)
  \/ DocumentSaved
  \/ DocumentCloses

SpecChecking ==
  /\ Init
  /\ [][NextChecking]_vars
  /\ \A g \in 1..MaxParses, i \in 1..MaxReferences :
       WF_vars(LookupsSettle(g, i))

\* package i of the list g exists and shows "Checking..."
IsChecking(g, i) ==
  /\ g \in DOMAIN lens.generations
  /\ i \in DOMAIN lens.generations[g]
  /\ lens.generations[g][i].isChecking

\* package i of the list g has left "Checking..." and the change of the
\* CodeLenses was fired for the list
CheckedAndFired(g, i) ==
  /\ g \in DOMAIN lens.generations
  /\ i \in DOMAIN lens.generations[g]
  /\ ~lens.generations[g][i].isChecking
  /\ g \in lens.fired

\* C39: when the lookups of every package settle, every package of a parsed
\* list eventually has isChecking = false, whether its lookups succeeded or
\* failed, and the change of the CodeLenses is fired for its list.
C39_LeavesChecking ==
  \A g \in 1..MaxParses, i \in 1..MaxReferences :
    IsChecking(g, i) ~> CheckedAndFired(g, i)

\* the lookups of a package were rejected, it has left "Checking..." and
\* the change of the CodeLenses was fired for its list, which is not the
\* list of the latest parse
C39_Witness ==
  \E g \in DOMAIN lens.generations :
    /\ g < Len(lens.generations)
    /\ g \in lens.fired
    /\ \E i \in DOMAIN lens.generations[g] :
         /\ lens.generations[g][i].fetch = "failed"
         /\ ~lens.generations[g][i].isChecking

(***************************************************************************)
(* The quick pick of handleSearchAndAddPackage: onDidChangeValue with its  *)
(* debounce timer and the searches it starts                               *)
(***************************************************************************)
\* the number of changes of the input
MaxChanges == 3

\* the number of searches started
MaxSearches == 2

\* the texts typed into the quick pick
SearchInputs == { <<>>, <<"a">>, <<"a", "b">>, <<"a", "b", "c">> }

\* what searchPackages(value, 20, true) resolves with: the hits of the
\* query, or [] when nothing is found or the request fails
SearchResults(value) ==
  { <<>>, << [id |-> value, version |-> V1_0_0, description |-> Empty] >> }

\* results.map((pkg) => ({label: pkg.id, description: pkg.version, ...}))
SearchItems(results) ==
  [ i \in DOMAIN results |->
      [ label |-> results[i].id, description |-> results[i].version,
        detail |-> results[i].description, alwaysShow |-> TRUE ] ]

\* quickPick.onDidChangeValue(value): the pending timer is cleared; a value
\* shorter than 2 characters empties the list and returns; otherwise the
\* value becomes currentSearch, busy is set and a timer is started
ChangeValue(value) ==
  /\ quickPick.changes < MaxChanges
  /\ value # quickPick.value
  /\ quickPick' =
       IF Len(value) < 2
         THEN [quickPick EXCEPT !.value = value, !.changes = @ + 1,
                                !.searchTimeout = Undefined,
                                !.items = <<>>]
         ELSE [quickPick EXCEPT !.value = value, !.changes = @ + 1,
                                !.currentSearch = value,
                                !.busy = TRUE,
                                !.searchTimeout = value]
  /\ UNCHANGED <<now, versionCache, pendingRequests, promises, calls, batch,
                 inp, out, vulnVars, metaVars, lens>>

\* the timer fires after 300 ms: searchPackages(value, 20, true) is called
\* and awaited
SearchTimeoutFires ==
  /\ quickPick.searchTimeout # Undefined
  /\ Len(quickPick.searches) < MaxSearches
  /\ quickPick' = [quickPick EXCEPT
       !.searchTimeout = Undefined,
       !.searches = Append(@, [ value |-> quickPick.searchTimeout,
                                state |-> "running",
                                input |-> Undefined ])]
  /\ UNCHANGED <<now, versionCache, pendingRequests, promises, calls, batch,
                 inp, out, vulnVars, metaVars, lens>>

\* searchPackages resolves: the results become the items and busy is reset
\* when value === currentSearch, otherwise nothing is done; input is the
\* text of the quick pick at that moment
SearchSettles(s, results) ==
  /\ s \in DOMAIN quickPick.searches
  /\ quickPick.searches[s].state = "running"
  /\ quickPick' =
       IF quickPick.searches[s].value = quickPick.currentSearch
         THEN [quickPick EXCEPT
                 !.items = SearchItems(results),
                 !.busy = FALSE,
                 !.searches[s].state = "applied",
                 !.searches[s].input = quickPick.value]
         ELSE [quickPick EXCEPT
                 !.searches[s].state = "ignored",
                 !.searches[s].input = quickPick.value]
  /\ UNCHANGED <<now, versionCache, pendingRequests, promises, calls, batch,
                 inp, out, vulnVars, metaVars, lens>>

NextQuickPick ==
  \/ \E value \in SearchInputs : ChangeValue(value)
  \/ SearchTimeoutFires
  \/ \E s \in 1..MaxSearches :
       \E results \in SearchResults(IF s \in DOMAIN quickPick.searches
                                      THEN quickPick.searches[s].value
                                      ELSE Empty) :
         SearchSettles(s, results)

SpecQuickPick == Init /\ [][NextQuickPick]_vars

\* a search is pending: its timer runs or searchPackages is awaited
SearchPending ==
  \/ quickPick.searchTimeout # Undefined
  \/ \E s \in DOMAIN quickPick.searches :
       quickPick.searches[s].state = "running"

\* the results of a search became the items only when its query was the
\* text of the quick pick at that moment
AppliedForCurrentInput ==
  \A s \in DOMAIN quickPick.searches :
    quickPick.searches[s].state = "applied" =>
      quickPick.searches[s].value = quickPick.searches[s].input

\* the quick pick is busy only while a search is pending
BusyOnlyWhilePending == quickPick.busy => SearchPending

\* C38: the results of a search become the items only when the query of the
\* search is the text of the quick pick at that moment, and the quick pick
\* is busy only while a search is pending.
C38_OnlyCurrentSearchShown ==
  AppliedForCurrentInput /\ BusyOnlyWhilePending

====
